---- MODULE Spec2Model ----
(***************************************************************************)
(* A model of parts of CubeCobra:                                          *)
(*   - the redraft route of the cube API (POST /redraft/:id/:seat), which  *)
(*     derives a new draft from a stored one with the seats rotated;       *)
(*   - the admin routes on the featured-cubes queue (queue, unqueue, move, *)
(*     setperiod), which all go through fq.updateFeatured;                 *)
(*   - the sample-pack routes (GET /p1p1/:id and /p1p1/:id/:seed) over     *)
(*     generatePack;                                                       *)
(*   - POST /submitdraft/:id and the analytics it folds the draft into;    *)
(*   - POST /adds/:id, which asks the recommendation service;              *)
(*   - POST /updatecard/:id and /updatecards/:id on a cube's card list;    *)
(*   - POST /settings/:id and the read endpoints of a cube;                *)
(*   - the admin routes that publish or decline content under review.      *)
(* The stores (drafts, cubes, the featured singleton, the analytics) are   *)
(* the state; each route handler is an action or, where it suspends on the *)
(* store between a read and a write, a short sequence of actions.          *)
(***************************************************************************)
EXTENDS Integers, Sequences, FiniteSets, TLC

VARIABLES
    drafts,     \* the Draft collection: a sequence, a draft's _id is its index
    cubes,      \* the Cube collection: cube id -> cube document
    rq,         \* the redraft request handled last (and the store it found)
    resp,       \* the response to that request
    featured,   \* the FeaturedCubes singleton: queue, daysBetweenRotations
    adm,        \* the featured-queue request of each admin session
    clock,      \* the server's clock, from which generatePack mints seeds
    cubeCards,  \* cube id -> the cube's card list and pack template
    packs,      \* the /p1p1 requests answered so far, with their responses
    analytics,  \* the CubeAnalytic collection: cube id -> card name -> picks
    sub,        \* the /submitdraft request of each client session
    foldLog,    \* the analytics the folds started from, and the folds made
    pend,       \* the redraft whose writes are under way
    adds,       \* the /adds request handled last, with its outcome
    cardList,   \* cube id -> the entries of the cube's card list
    upd,        \* the /updatecard or /updatecards request handled last
    setq,       \* the /settings request of the cube's owner
    rd,         \* the read request handled last, with its response
    content,    \* the articles, videos and podcasts: status, date
    rev         \* the review request of each admin session, and what was sent

\* the variables of the card-list, settings, read and review routes
editVars == <<cardList, upd, setq, rd, content, rev>>

\* the variables of the routes modelled further down
apiVars == <<clock, cubeCards, packs, analytics, sub, foldLog, pend, adds, editVars>>

vars == <<drafts, cubes, rq, resp, featured, adm, apiVars>>

(***************************************************************************)
(* Bounds of the model.                                                    *)
(***************************************************************************)
MaxSeats == 4       \* seats of a source draft
MaxDrafts == 2      \* capacity of the Draft collection
NumCubes == 4       \* cubes in the Cube collection
MaxRetries == 2     \* attempts of one updateFeatured call
MaxPool == 3        \* cards in a cube's card list
MaxSlots == 2       \* slots of a pack template
MaxSubmits == 2     \* /submitdraft requests
MaxCards == 2       \* entries of a cube's card list
MaxClock == 1       \* ticks of the server's clock

(***************************************************************************)
(* JavaScript values. null is the empty tuple and a present value v is the *)
(* one-element tuple <<v>>, so that a nullable field always holds a tuple. *)
(***************************************************************************)
Null == << >>
Some(v) == << v >>

CubeIds == 1 .. NumCubes

User1 == [_id |-> "u1", username |-> "alice"]
User2 == [_id |-> "u2", username |-> "bob"]

\* req.user: null when nobody is logged in
Viewers == {Null, Some(User1), Some(User2)}

(***************************************************************************)
(* Route parameters are strings: sequences of one-character strings.       *)
(***************************************************************************)
DigitChars == <<"0", "1", "2", "3", "4", "5", "6", "7", "8", "9">>

IsDigit(c) == \E d \in 1 .. 10 : DigitChars[d] = c

DigitVal(c) == (CHOOSE d \in 1 .. 10 : DigitChars[d] = c) - 1

RECURSIVE DigitPrefixLen(_)
DigitPrefixLen(s) ==
    IF s = << >> \/ ~IsDigit(Head(s)) THEN 0 ELSE 1 + DigitPrefixLen(Tail(s))

RECURSIVE DigitsValue(_, _)
DigitsValue(s, k) ==
    IF k = 0 THEN 0 ELSE DigitsValue(s, k - 1) * 10 + DigitVal(s[k])

\* parseInt(s, 10): an optional sign, then the longest prefix of decimal
\* digits; whatever follows the digits is ignored; NaN when there is no digit.
parseInt(s) ==
    LET signed == s # << >> /\ Head(s) \in {"-", "+"}
        body == IF signed THEN Tail(s) ELSE s
        k == DigitPrefixLen(body)
        mag == DigitsValue(body, k)
    IN  IF k = 0
        THEN [nan |-> TRUE, val |-> 0]
        ELSE [nan |-> FALSE, val |-> IF Head(s) = "-" THEN 0 - mag ELSE mag]

\* Number.isInteger of a parseInt result
NumberIsInteger(x) == ~x.nan

(***************************************************************************)
(* Helpers of routes/cube/helper.js and serverjs/cubefn.js.                *)
(***************************************************************************)
\* rotateArrayLeft(arr, k): the element at index k comes first
rotateArrayLeft(arr, k) ==
    [i \in 1 .. Len(arr) |-> arr[((i - 1 + k) % Len(arr)) + 1]]

\* createPool(): a pool holding no card
createPool == << >>

\* isCubeViewable(cube, user)
isCubeViewable(cube, user) ==
    /\ cube # Null
    /\ \/ ~cube[1].isPrivate
       \/ user # Null /\ user[1]._id = cube[1].owner

\* Model.findById on a collection kept as a sequence
findById(store, id) == IF id \in 1 .. Len(store) THEN Some(store[id]) ELSE Null

\* Cube.findById
findCube(store, id) ==
    IF id \in DOMAIN store /\ store[id].exists THEN Some(store[id]) ELSE Null

(***************************************************************************)
(* POST /redraft/:id/:seat                                                 *)
(***************************************************************************)
Redirect(flashType, msg) ==
    [kind |-> "redirect", status |-> 302, flashType |-> flashType,
     flashMsg |-> msg, draft |-> 0]

SendDraft(id) ==
    [kind |-> "json", status |-> 200, flashType |-> "", flashMsg |-> "",
     draft |-> id]

NoResponse ==
    [kind |-> "none", status |-> 0, flashType |-> "", flashMsg |-> "",
     draft |-> 0]

MsgNoDraft == "This deck is not able to be redrafted."
MsgBadSeat == "Did not give a valid seat number to redraft as."
MsgNoCube == "The cube that this deck belongs to no longer exists."

\* The body of the loop over the seats of the new draft.
ClearSeatNoTrash(s) ==
    [s EXCEPT !.bot = Some(<< >>), !.drafted = createPool,
              !.sideboard = createPool, !.pickorder = << >>]

ClearSeat(s) ==
    [s EXCEPT !.bot = Some(<< >>), !.drafted = createPool,
              !.sideboard = createPool, !.pickorder = << >>,
              !.trashorder = << >>]

\* The seats of the new draft: copy, rotate, clear, hand seat 0 to the viewer.
\* (JavaScript indexes from 0, sequences from 1.)
RedraftSeatsRotateRight(srcSeats, seat, user) ==
    LET n == Len(srcSeats)
        rotated == rotateArrayLeft(srcSeats, n - (seat % n))
        cleared == [i \in 1 .. n |-> ClearSeat(rotated[i])]
    IN  [cleared EXCEPT ![1].bot = Null,
                        ![1].userid = IF user # Null THEN Some(user[1]._id) ELSE Null,
                        ![1].name = IF user # Null THEN user[1].username ELSE "Anonymous"]

RedraftSeatsHumanAtSeat(srcSeats, seat, user) ==
    LET rotated == rotateArrayLeft(srcSeats, seat)
        cleared == [i \in 1 .. Len(rotated) |-> ClearSeat(rotated[i])]
    IN  [cleared EXCEPT ![seat + 1].bot = Null,
                        ![seat + 1].userid = IF user # Null THEN Some(user[1]._id) ELSE Null,
                        ![seat + 1].name = IF user # Null THEN user[1].username ELSE "Anonymous"]

RedraftSeats(srcSeats, seat, user) ==
    LET sliced == srcSeats
        rotated == rotateArrayLeft(sliced, seat)
        marked == [rotated EXCEPT ![seat + 1].bot = Null]
        cleared == [i \in 1 .. Len(marked) |-> ClearSeat(marked[i])]
    IN  [cleared EXCEPT ![1].bot = Null,
                        ![1].userid = IF user # Null THEN Some(user[1]._id) ELSE Null,
                        ![1].name = IF user # Null THEN user[1].username ELSE "Anonymous"]

\* The new Draft document, as it is when draft.save() is called.
NewDraftFreshPacks(srcDraft, seat, user) ==
    [cube |-> srcDraft.cube,
     seats |-> RedraftSeats(srcDraft.seats, seat, user),
     basics |-> srcDraft.basics,
     initial_state |-> << >>,
     cards |-> srcDraft.cards]

NewDraft(srcDraft, seat, user) ==
    [cube |-> srcDraft.cube,
     seats |-> RedraftSeats(srcDraft.seats, seat, user),
     basics |-> srcDraft.basics,
     initial_state |-> srcDraft.initial_state,
     cards |-> srcDraft.cards]

\* draft.save() of the new document: an insert under a fresh _id.
SaveOverSource(store, id, draft) == Append([store EXCEPT ![id] = draft], draft)

SaveNewDraft(store, id, draft) == Append(store, draft)

\* The handler: the store it leaves and the response it sends.
RedraftHandler(store, cubeStore, id, seatParam, user) ==
    LET srcDraft == findById(store, id)
        seat == parseInt(seatParam)
    IN  IF srcDraft = Null
        THEN [drafts |-> store, resp |-> Redirect("danger", MsgNoDraft)]
        ELSE IF ~NumberIsInteger(seat) \/ seat.val < 0
                  \/ seat.val >= Len(srcDraft[1].seats)
        THEN [drafts |-> store, resp |-> Redirect("dange", MsgBadSeat)]
        ELSE IF ~isCubeViewable(findCube(cubeStore, srcDraft[1].cube), user)
        THEN [drafts |-> store, resp |-> Redirect("danger", MsgNoCube)]
        ELSE [drafts |-> SaveNewDraft(store, id, NewDraft(srcDraft[1], seat.val, user)),
              resp |-> SendDraft(Len(store) + 1)]

NoRequest ==
    [op |-> "none", id |-> 0, seat |-> << >>, user |-> Null, before |-> << >>]

\* The :id parameters tried: every stored draft and one id that is not stored.
DraftIdParams == 1 .. MaxDrafts

\* The :seat parameters tried: every seat number up to one past the largest
\* draft, a negative number, text that is no number, and digits followed by
\* something else.
SeatParams ==
    {<<DigitChars[d + 1]>> : d \in 0 .. MaxSeats}
        \cup {<<"-", "1">>, <<"x">>, <<"1", "x">>, <<"0", ".", "5">>,
              <<"1", "0">>, << >>}

Redraft(id, seatParam, user) ==
    /\ rq.op = "none"
    /\ Len(drafts) < MaxDrafts
    /\ LET r == RedraftHandler(drafts, cubes, id, seatParam, user)
       IN  /\ drafts' = r.drafts
           /\ resp' = r.resp
    /\ rq' = [op |-> "redraft", id |-> id, seat |-> seatParam, user |-> user,
              before |-> drafts]
    /\ UNCHANGED <<cubes, featured, adm>>
    /\ UNCHANGED apiVars

(***************************************************************************)
(* The featured-cubes queue. Every admin route changes the FeaturedCubes   *)
(* singleton through fq.updateFeatured(fn): read the singleton, apply fn   *)
(* to it, and write it back if nobody wrote it since it was read; a write  *)
(* that comes too late is tried again from the read, MaxRetries times in   *)
(* all. An fn that throws ends the update with {ok: false, message}.       *)
(***************************************************************************)
Admins == {1, 2}

NoFeatured == [queue |-> << >>, daysBetweenRotations |-> 7]

NoCubeId == 0 - 1       \* the request carries no cubeId

\* The cubeId parameters tried: the stored cubes, 0 (an id under which no
\* cube is stored) and none.
CubeIdParams == CubeIds \cup {0, NoCubeId}

\* 'from' and 'to' of a move request, counted from 1
MoveIndexParams == 2 .. NumCubes + 1

DaysParams == {<<"7">>, <<"1", "4">>, <<"x">>}

MsgNotSent == "Cube ID not sent"
MsgNoSuchCube == "Cube does not exist"
MsgPrivate == "Cannot feature private cube"
MsgDuplicate == "Cube is already in queue"
MsgNotInQueue == "Cube not found in queue"
MsgFeatured == "Cannot remove currently featured cube from queue"
MsgNotAtPosition == "Cube is not at expected position in queue"
MsgTargetTooHigh == "Target position is higher than cube length"
MsgInvalid == "Validation failed"
MsgMoved == "Successfully moved cube"
MsgContention == "Featured cubes were changed by someone else"

\* queue.findIndex((c) => c.cubeID.equals(id)), counted from 0; -1 when absent
findIndex(queue, id) ==
    IF \E i \in 1 .. Len(queue) : queue[i].cubeID = id
    THEN (CHOOSE i \in 1 .. Len(queue) :
              /\ queue[i].cubeID = id
              /\ \A j \in 1 .. i - 1 : queue[j].cubeID # id) - 1
    ELSE 0 - 1

\* queue.splice(index, 1) and queue.splice(index, 0, entry), index from 0
spliceOut(queue, index) ==
    [i \in 1 .. Len(queue) - 1 |-> IF i <= index THEN queue[i] ELSE queue[i + 1]]

spliceInBehind(queue, index, entry) ==
    LET at == IF index + 1 > Len(queue) THEN Len(queue) ELSE index + 1
    IN  [i \in 1 .. Len(queue) + 1 |->
            IF i <= at THEN queue[i]
            ELSE IF i = at + 1 THEN entry
            ELSE queue[i - 1]]

spliceIn(queue, index, entry) ==
    LET at == IF index > Len(queue) THEN Len(queue) ELSE index
    IN  [i \in 1 .. Len(queue) + 1 |->
            IF i <= at THEN queue[i]
            ELSE IF i = at + 1 THEN entry
            ELSE queue[i - 1]]

Threw(queue, msg) == [threw |-> TRUE, message |-> msg, queue |-> queue, ret |-> << >>]
Returned(queue, ret) == [threw |-> FALSE, message |-> "", queue |-> queue, ret |-> ret]

\* The function /featuredcubes/queue hands to updateFeatured.
QueueFnNoCheck(queue, cube) ==
    Returned(Append(queue, [cubeID |-> cube._id, ownerID |-> cube.owner]), << >>)

QueueFn(queue, cube) ==
    LET index == findIndex(queue, cube._id)
    IN  IF index # 0 - 1
        THEN Threw(queue, MsgDuplicate)
        ELSE Returned(Append(queue, [cubeID |-> cube._id, ownerID |-> cube.owner]),
                      << >>)

\* The function /featuredcubes/unqueue hands to updateFeatured.
UnqueueFnSecondFree(queue, cubeId) ==
    LET index == findIndex(queue, cubeId)
    IN  IF index = 0 - 1 THEN Threw(queue, MsgNotInQueue)
        ELSE IF index < 1 THEN Threw(queue, MsgFeatured)
        ELSE Returned(spliceOut(queue, index), <<queue[index + 1]>>)

UnqueueFn(queue, cubeId) ==
    LET index == findIndex(queue, cubeId)
    IN  IF index = 0 - 1 THEN Threw(queue, MsgNotInQueue)
        ELSE IF index < 2 THEN Threw(queue, MsgFeatured)
        ELSE Returned(spliceOut(queue, index), <<queue[index + 1]>>)

\* The function /featuredcubes/move hands to updateFeatured; from and to
\* are the request's positions less one.
MoveFnNoTargetCheck(queue, cubeId, from, to) ==
    IF Len(queue) <= from \/ queue[from + 1].cubeID # cubeId
    THEN Threw(queue, MsgNotAtPosition)
    ELSE Returned(spliceIn(spliceOut(queue, from), to, queue[from + 1]), << >>)

MoveFn(queue, cubeId, from, to) ==
    IF Len(queue) <= from \/ queue[from + 1].cubeID # cubeId
    THEN Threw(queue, MsgNotAtPosition)
    ELSE IF Len(queue) <= to
    THEN Threw(queue, MsgTargetTooHigh)
    ELSE Returned(spliceIn(spliceOut(queue, from), to, queue[from + 1]), << >>)

\* A request slot: the request, where its handler stands (pc), what
\* updateFeatured holds for it, and the outcome once it is done.
IdleSlot ==
    [pc |-> "idle", op |-> "none", cubeId |-> NoCubeId, from |-> 0, to |-> 0,
     cube |-> Null, before |-> << >>, snap |-> NoFeatured, ret |-> << >>,
     stale |-> FALSE, attempts |-> 0, applied |-> 0,
     ok |-> FALSE, message |-> "", flashType |-> "", notified |-> Null]

\* The handler ends with a flash message and the redirect to the queue page.
Finished(slot, ok, flashType, msg) ==
    [slot EXCEPT !.pc = "done", !.ok = ok, !.flashType = flashType, !.message = msg]

\* The update function of the slot's request, applied to a queue.
ApplyFn(slot, queue) ==
    CASE slot.op = "queue" -> QueueFn(queue, slot.cube[1])
      [] slot.op = "unqueue" -> UnqueueFn(queue, slot.cubeId)
      [] slot.op = "move" -> MoveFn(queue, slot.cubeId, slot.from - 1, slot.to - 1)

\* POST /featuredcubes/queue, up to the call of updateFeatured
AdminQueue(p, cubeId) ==
    /\ adm[p].pc = "idle"
    /\ LET slot == [IdleSlot EXCEPT !.op = "queue", !.cubeId = cubeId,
                                    !.before = featured.queue]
           cube == findCube(cubes, cubeId)
       IN  adm' = [adm EXCEPT ![p] =
              IF cubeId = NoCubeId THEN Finished(slot, FALSE, "danger", MsgNotSent)
              ELSE IF cube = Null THEN Finished(slot, FALSE, "danger", MsgNoSuchCube)
              ELSE IF cube[1].isPrivate THEN Finished(slot, FALSE, "danger", MsgPrivate)
              ELSE [slot EXCEPT !.pc = "update",
                                !.cube = Some([_id |-> cubeId, owner |-> cube[1].owner])]]
    /\ UNCHANGED <<drafts, cubes, rq, resp, featured>>
    /\ UNCHANGED apiVars

\* POST /featuredcubes/unqueue, up to the call of updateFeatured
AdminUnqueue(p, cubeId) ==
    /\ adm[p].pc = "idle"
    /\ LET slot == [IdleSlot EXCEPT !.op = "unqueue", !.cubeId = cubeId,
                                    !.before = featured.queue]
       IN  adm' = [adm EXCEPT ![p] =
              IF cubeId = NoCubeId THEN Finished(slot, FALSE, MsgNotSent, "")
              ELSE [slot EXCEPT !.pc = "update"]]
    /\ UNCHANGED <<drafts, cubes, rq, resp, featured>>
    /\ UNCHANGED apiVars

MoveValidatedFromOne(cubeId, from, to) == cubeId # NoCubeId /\ from > 0 /\ to > 0

\* The validators of /featuredcubes/move: cubeId not empty, from and to
\* integers greater than 2.
MoveValidated(cubeId, from, to) == cubeId # NoCubeId /\ from > 2 /\ to > 2

\* POST /featuredcubes/move, up to the call of updateFeatured
AdminMove(p, cubeId, from, to) ==
    /\ adm[p].pc = "idle"
    /\ LET slot == [IdleSlot EXCEPT !.op = "move", !.cubeId = cubeId,
                                    !.from = from, !.to = to,
                                    !.before = featured.queue]
       IN  adm' = [adm EXCEPT ![p] =
              IF ~MoveValidated(cubeId, from, to)
              THEN Finished(slot, FALSE, "danger", MsgInvalid)
              ELSE [slot EXCEPT !.pc = "update"]]
    /\ UNCHANGED <<drafts, cubes, rq, resp, featured>>
    /\ UNCHANGED apiVars

\* updateFeatured reads the singleton and applies the function to it. A
\* function that throws ends the update and the handler flashes its message.
UpdateApply(p) ==
    /\ adm[p].pc = "update"
    /\ LET slot == [adm[p] EXCEPT !.before = featured.queue,
                                  !.applied = adm[p].applied + 1]
           r == ApplyFn(slot, featured.queue)
       IN  adm' = [adm EXCEPT ![p] =
              IF r.threw
              THEN Finished(slot, FALSE, "danger", r.message)
              ELSE [slot EXCEPT !.pc = "persist", !.stale = FALSE, !.ret = r.ret,
                                !.snap = [featured EXCEPT !.queue = r.queue]]]
    /\ UNCHANGED <<drafts, cubes, rq, resp, featured>>
    /\ UNCHANGED apiVars

OutdatedNever(slots, writer) == slots

\* Whoever writes the singleton makes every snapshot read before it stale.
Outdated(slots, writer) ==
    [q \in DOMAIN slots |->
        IF q # writer /\ slots[q].pc = "persist"
        THEN [slots[q] EXCEPT !.stale = TRUE]
        ELSE slots[q]]

\* What the handler does once updateFeatured has returned ok: queue and
\* unqueue notify the cube's owner, move flashes its success.
AfterUpdate(slot) ==
    CASE slot.op = "queue" ->
            [Finished(slot, TRUE, "", "") EXCEPT !.notified = Some(slot.cube[1].owner)]
      [] slot.op = "unqueue" ->
            [Finished(slot, TRUE, "", "") EXCEPT !.notified = Some(slot.ret[1].ownerID)]
      [] slot.op = "move" -> Finished(slot, TRUE, "success", MsgMoved)

\* updateFeatured writes the singleton back: it was not written meanwhile.
UpdatePersist(p) ==
    /\ adm[p].pc = "persist"
    /\ ~adm[p].stale
    /\ featured' = adm[p].snap
    /\ adm' = [Outdated(adm, p) EXCEPT ![p] = AfterUpdate(adm[p])]
    /\ UNCHANGED <<drafts, cubes, rq, resp>>
    /\ UNCHANGED apiVars

\* The singleton was written meanwhile: read again, or give up.
UpdateRetry(p) ==
    /\ adm[p].pc = "persist"
    /\ adm[p].stale
    /\ adm' = [adm EXCEPT ![p] =
          IF adm[p].attempts + 1 < MaxRetries
          THEN [adm[p] EXCEPT !.pc = "update", !.stale = FALSE,
                              !.attempts = adm[p].attempts + 1]
          ELSE Finished([adm[p] EXCEPT !.attempts = adm[p].attempts + 1],
                        FALSE, "danger", MsgContention)]
    /\ UNCHANGED <<drafts, cubes, rq, resp, featured>>
    /\ UNCHANGED apiVars

\* The redirect has gone out; the session sends its next request.
AdminDone(p) ==
    /\ adm[p].pc = "done"
    /\ adm' = [adm EXCEPT ![p] = IdleSlot]
    /\ UNCHANGED <<drafts, cubes, rq, resp, featured>>
    /\ UNCHANGED apiVars

\* POST /featuredcubes/setperiod/:days, from another session: the whole
\* handler, its update included.
SetPeriod(daysParam) ==
    /\ LET days == parseInt(daysParam)
       IN  IF ~NumberIsInteger(days)
           THEN UNCHANGED <<featured, adm>>
           ELSE /\ featured' = [featured EXCEPT !.daysBetweenRotations = days.val]
                /\ adm' = Outdated(adm, 0)
    /\ UNCHANGED <<drafts, cubes, rq, resp>>
    /\ UNCHANGED apiVars

(***************************************************************************)
(* GET /p1p1/:id and GET /p1p1/:id/:seed: a sample first pack of a cube.   *)
(* generatePack of serverjs/cubefn.js draws the pack with a random number  *)
(* generator seeded from a string.                                         *)
(***************************************************************************)
\* carddb: card id -> details. Cards 1 and 2 are two printings of one name.
carddb ==
    <<[name |-> "Bolt", rarity |-> "rare"],
      [name |-> "Bolt", rarity |-> "common"],
      [name |-> "Opt", rarity |-> "rare"]>>

Range(seq) == {seq[i] : i \in DOMAIN seq}

\* a predicate of a slot rule, on the metadata of card c
Satisfies(c, pred) ==
    CASE pred = "rare" -> carddb[c].rarity = "rare"
      [] pred = "any" -> TRUE
      [] OTHER -> FALSE

SlotRule(primary, fallback) ==
    [primaryPredicate |-> primary, fallbackPredicate |-> fallback]

\* Number.toString(): the decimal digits of n
RECURSIVE DecString(_)
DecString(n) ==
    IF n < 10 THEN <<DigitChars[n + 1]>>
    ELSE DecString(n \div 10) \o <<DigitChars[(n % 10) + 1]>>

\* The seeded generator: its state is a residue; the state it starts from is
\* a hash of the characters of the seed, and each draw advances it once.
RngMod == 31

CharCode(c) == IF IsDigit(c) THEN DigitVal(c) + 1 ELSE 11

RECURSIVE SeedState(_, _)
SeedState(seed, k) ==
    IF k = 0 THEN 0 ELSE (SeedState(seed, k - 1) * 11 + CharCode(seed[k])) % RngMod

RngNext(state) == (state * 7 + 5) % RngMod

EligibleWithRepeats(pool, pred, alreadyChosen) ==
    SelectSeq(pool, LAMBDA c : Satisfies(c, pred))

Eligible(pool, pred, alreadyChosen) ==
    SelectSeq(pool, LAMBDA c : Satisfies(c, pred) /\ c \notin alreadyChosen)

\* resolveSlot(pool, slotRule, alreadyChosenInPack), with the generator
Candidates(pool, slotRule, alreadyChosen) ==
    LET primary == Eligible(pool, slotRule.primaryPredicate, alreadyChosen)
    IN  IF primary # << >> THEN primary
        ELSE Eligible(pool, slotRule.fallbackPredicate, alreadyChosen)

resolveSlot(pool, slotRule, alreadyChosen, rng) ==
    LET candidates == Candidates(pool, slotRule, alreadyChosen)
    IN  IF candidates = << >>
        THEN [failed |-> TRUE, card |-> 0, rng |-> rng]
        ELSE [failed |-> FALSE, card |-> candidates[(rng % Len(candidates)) + 1],
              rng |-> RngNext(rng)]

\* The slots of the template one after the other; chosen is the pack so far.
RECURSIVE PackSlotsShort(_, _, _, _)
PackSlotsShort(pool, template, rng, chosen) ==
    IF Len(chosen) = Len(template) THEN [failed |-> FALSE, pack |-> chosen]
    ELSE LET r == resolveSlot(pool, template[Len(chosen) + 1], Range(chosen), rng)
         IN  IF r.failed THEN [failed |-> FALSE, pack |-> chosen]
             ELSE PackSlotsShort(pool, template, r.rng, Append(chosen, r.card))

RECURSIVE PackSlots(_, _, _, _)
PackSlots(pool, template, rng, chosen) ==
    IF Len(chosen) = Len(template) THEN [failed |-> FALSE, pack |-> chosen]
    ELSE LET r == resolveSlot(pool, template[Len(chosen) + 1], Range(chosen), rng)
         IN  IF r.failed THEN [failed |-> TRUE, pack |-> << >>]
             ELSE PackSlots(pool, template, r.rng, Append(chosen, r.card))

\* generatePack(cube, carddb, seed): seed is false (here Null) or a string;
\* now is the reading of the clock a missing seed is minted from.
generatePack(cube, seed, now) ==
    LET used == IF seed = Null THEN DecString(now) ELSE seed[1]
        r == PackSlots(cube.cards, cube.template, SeedState(used, Len(used)), << >>)
    IN  [error |-> IF r.failed THEN "InsufficientCardsError" ELSE "",
         seed |-> Some(used), pack |-> r.pack]

\* The answers of the two routes. cards is result.pack, the cards behind the
\* names that are sent.
PackNotFound(id, seedIn) ==
    [cube |-> id, seedIn |-> seedIn, status |-> 404, message |-> "Cube not found",
     seed |-> Null, pack |-> << >>, cards |-> << >>]

\* util.wrapAsyncApi answers for a handler that threw
PackFailed(id, seedIn, result) ==
    [cube |-> id, seedIn |-> seedIn, status |-> 500, message |-> result.error,
     seed |-> Null, pack |-> << >>, cards |-> << >>]

PackSent(id, seedIn, seed, result) ==
    [cube |-> id, seedIn |-> seedIn, status |-> 200, message |-> "",
     seed |-> seed, pack |-> [i \in DOMAIN result.pack |-> carddb[result.pack[i]].name],
     cards |-> result.pack]

\* the seed GET /p1p1/:id answers with
SeedOfParams(result) == Null

SeedOfResult(result) == result.seed

P1P1Handler(cubeStore, cardStore, id, user, now) ==
    LET cube == findCube(cubeStore, id)
    IN  IF ~isCubeViewable(cube, user) THEN PackNotFound(id, Null)
        ELSE LET result == generatePack(cardStore[id], Null, now)
             IN  IF result.error # "" THEN PackFailed(id, Null, result)
                 ELSE PackSent(id, Null, SeedOfResult(result), result)

\* the call of generatePack in GET /p1p1/:id/:seed
SeededPackFresh(cube, seedParam, now) == generatePack(cube, Null, now)

SeededPack(cube, seedParam, now) == generatePack(cube, Some(seedParam), now)

P1P1SeedHandler(cubeStore, cardStore, id, seedParam, user, now) ==
    LET cube == findCube(cubeStore, id)
    IN  IF ~isCubeViewable(cube, user) THEN PackNotFound(id, Some(seedParam))
        ELSE LET result == SeededPack(cardStore[id], seedParam, now)
             IN  IF result.error # "" THEN PackFailed(id, Some(seedParam), result)
                 ELSE PackSent(id, Some(seedParam), Some(seedParam), result)

\* packs keeps the last two answers
Remember(history, answer) ==
    IF Len(history) < 2 THEN Append(history, answer)
    ELSE Append(Tail(history), answer)

PackCubeParams == {0, 1}
SeedParams == {<<"4", "2">>}

\* the seeds a client holds: those it makes up and those it was sent
KnownSeeds(history) ==
    SeedParams \cup {history[i].seed[1] : i \in {j \in DOMAIN history : history[j].seed # Null}}

P1P1(id, user) ==
    /\ packs' = Remember(packs, P1P1Handler(cubes, cubeCards, id, user, clock))
    /\ UNCHANGED <<drafts, cubes, rq, resp, featured, adm>>
    /\ UNCHANGED <<clock, cubeCards, analytics, sub, foldLog, pend, adds>>
    /\ UNCHANGED editVars

P1P1Seed(id, seedParam, user) ==
    /\ packs' = Remember(packs, P1P1SeedHandler(cubes, cubeCards, id, seedParam, user, clock))
    /\ UNCHANGED <<drafts, cubes, rq, resp, featured, adm>>
    /\ UNCHANGED <<clock, cubeCards, analytics, sub, foldLog, pend, adds>>
    /\ UNCHANGED editVars

\* time passes
Tick ==
    /\ clock < MaxClock
    /\ clock' = clock + 1
    /\ UNCHANGED <<drafts, cubes, rq, resp, featured, adm>>
    /\ UNCHANGED <<cubeCards, packs, analytics, sub, foldLog, pend, adds>>
    /\ UNCHANGED editVars

\* A cube's template: n slots, all of them rares only ("strict"), or a rare
\* if there is one and then any card ("loose").
PackTemplate(n, kind) ==
    [i \in 1 .. n |->
        IF kind = "strict" THEN SlotRule("rare", "rare")
        ELSE IF i = 1 THEN SlotRule("rare", "any") ELSE SlotRule("any", "any")]

PackTemplates == {PackTemplate(n, kind) : n \in 1 .. MaxSlots, kind \in {"strict", "loose"}}

\* card lists of up to MaxPool cards, in the order of their ids; a card can
\* be in a cube more than once
CardLists ==
    UNION {{l \in [1 .. n -> DOMAIN carddb] : \A i \in 1 .. n - 1 : l[i] <= l[i + 1]} :
           n \in 0 .. MaxPool}

NoCards == [cards |-> << >>, template |-> PackTemplate(1, "loose")]

(***************************************************************************)
(* The drafts a redraft can start from. Seat i of a source draft is named  *)
(* by its position, and has either handled the one card of its pack        *)
(* (picked or trashed it) or not yet.                                      *)
(***************************************************************************)
SeatNames == <<"A", "B", "C", "D", "E", "F", "G", "H">>

\* A draft is started with its human player in seat 0 and bots in the others.
SourceSeat(i, handled) ==
    [userid |-> IF i = 1 THEN Some("u2") ELSE Null,
     name |-> SeatNames[i],
     bot |-> IF i = 1 THEN Null ELSE Some(<<"W", "U">>),
     drafted |-> IF handled /\ i % 2 = 1 THEN <<10 + i>> ELSE << >>,
     sideboard |-> IF handled /\ i % 2 = 0 THEN <<10 + i>> ELSE << >>,
     pickorder |-> IF handled /\ i % 2 = 1 THEN <<i>> ELSE << >>,
     trashorder |-> IF handled /\ i % 2 = 0 THEN <<i>> ELSE << >>]

SourceDraft(n, handled) ==
    [cube |-> 1,
     seats |-> [i \in 1 .. n |-> SourceSeat(i, handled[i])],
     basics |-> <<90, 91>>,
     initial_state |-> [i \in 1 .. n |-> << <<i>> >>],
     cards |-> [i \in 1 .. n |-> 10 + i]]

SourceDrafts ==
    UNION {{SourceDraft(n, handled) : handled \in [1 .. n -> BOOLEAN]} :
           n \in 1 .. MaxSeats}

RECURSIVE CardsHandled(_)
CardsHandled(seats) ==
    IF seats = << >> THEN 0
    ELSE Len(Head(seats).pickorder) + Len(Head(seats).trashorder)
            + CardsHandled(Tail(seats))

\* A draft is complete when every card of its packs has been picked or trashed.
IsComplete(draft) == CardsHandled(draft.seats) = Len(draft.cards)

PublicCube(owner) == [exists |-> TRUE, isPrivate |-> FALSE, owner |-> owner]
PrivateCube(owner) == [exists |-> TRUE, isPrivate |-> TRUE, owner |-> owner]
DeletedCube(owner) == [exists |-> FALSE, isPrivate |-> FALSE, owner |-> owner]

CubeOwner(c) == IF c % 2 = 1 THEN "u1" ELSE "u2"

(***************************************************************************)
(* POST /submitdraft/:id: the client sends the seats of its draft; they    *)
(* are stored and the draft is folded into the analytics of its cube by    *)
(* saveDraftAnalytics of serverjs/cubefn.js.                               *)
(***************************************************************************)
Clients == {1, 2}

CardNames == {carddb[c].name : c \in DOMAIN carddb}

\* A seat of a draft over the three cards of carddb: pickorder and
\* trashorder hold indexes into draft.cards.
DraftSeat(i, picks, trash) ==
    [userid |-> IF i = 1 THEN Some("u2") ELSE Null,
     name |-> SeatNames[i],
     bot |-> IF i = 1 THEN Null ELSE Some(<<"W", "U">>),
     drafted |-> picks,
     sideboard |-> << >>,
     pickorder |-> picks,
     trashorder |-> trash]

\* The seats of a two-seat draft: not started, under way, and finished in
\* two ways.
SeatsFresh == <<DraftSeat(1, << >>, << >>), DraftSeat(2, << >>, << >>)>>
SeatsUnderWay == <<DraftSeat(1, <<1>>, << >>), DraftSeat(2, << >>, << >>)>>
SeatsPicked == <<DraftSeat(1, <<1, 3>>, << >>), DraftSeat(2, <<2>>, << >>)>>
SeatsTrashed == <<DraftSeat(1, <<1>>, <<3>>), DraftSeat(2, <<2>>, << >>)>>

SeatsBodies == {SeatsFresh, SeatsUnderWay, SeatsPicked, SeatsTrashed}

StoredDraft(seats) ==
    [cube |-> 1,
     seats |-> seats,
     basics |-> <<90, 91>>,
     initial_state |-> << << <<1, 3>> >>, << <<2>> >> >>,
     cards |-> <<1, 2, 3>>]

\* the picks a draft holds of the cards named name
RECURSIVE PicksOfName(_, _, _)
PicksOfName(cards, pickorder, name) ==
    IF pickorder = << >> THEN 0
    ELSE (IF carddb[cards[Head(pickorder)]].name = name THEN 1 ELSE 0)
            + PicksOfName(cards, Tail(pickorder), name)

RECURSIVE Contribution(_, _, _)
Contribution(cards, seats, name) ==
    IF seats = << >> THEN 0
    ELSE PicksOfName(cards, Head(seats).pickorder, name)
            + Contribution(cards, Tail(seats), name)

\* saveDraftAnalytics: the pick counters of the cube with the draft folded in
Fold(picks, cards, seats) ==
    [name \in CardNames |-> picks[name] + Contribution(cards, seats, name)]

\* a CubeAnalytic document; v counts its writes
Analytic(picks) == [picks |-> picks, v |-> 0]

\* The write of saveDraftAnalytics is refused when the document has been
\* written since it was read.
AnalyticNeverStale(snap, current) == FALSE

AnalyticStale(snap, current) == snap.v # current.v

\* whether the handler goes on to saveDraftAnalytics; calls holds the calls
\* made so far for each draft
AnalyticsCalledOnce(calls, id) == calls[id] = 0

AnalyticsCalled(calls, id) == TRUE

IdleSubmit ==
    [pc |-> "idle", id |-> 0, seats |-> << >>, cube |-> 0, cards |-> << >>,
     snap |-> Null, retries |-> 0, status |-> 0]

NoFolds(picks) ==
    [base |-> picks, requests |-> 0, calls |-> [id \in 1 .. 2 |-> 0], done |-> << >>]

SubmitIdParams == 1 .. 3

\* lines 1089-1093: find the draft, set its seats, save it. Without a draft
\* of that _id, draft.seats throws and no response is sent.
SubmitDraft(p, id, seats) ==
    /\ sub[p].pc = "idle"
    /\ foldLog.requests < MaxSubmits
    /\ LET draft == findById(drafts, id)
       IN  IF draft = Null
           THEN /\ sub' = [sub EXCEPT ![p] = [IdleSubmit EXCEPT !.pc = "done", !.id = id,
                                                            !.seats = seats]]
                /\ foldLog' = [foldLog EXCEPT !.requests = @ + 1]
                /\ UNCHANGED drafts
           ELSE /\ drafts' = [drafts EXCEPT ![id].seats = seats]
                /\ sub' = [sub EXCEPT ![p] =
                              [IdleSubmit EXCEPT
                                  !.pc = IF AnalyticsCalled(foldLog.calls, id)
                                         THEN "fold" ELSE "send",
                                  !.id = id, !.seats = seats,
                                  !.cube = draft[1].cube, !.cards = draft[1].cards]]
                /\ foldLog' = [foldLog EXCEPT
                                  !.requests = @ + 1,
                                  !.calls[id] = IF AnalyticsCalled(foldLog.calls, id)
                                                THEN @ + 1 ELSE @]
    /\ UNCHANGED <<cubes, rq, resp, featured, adm>>
    /\ UNCHANGED <<clock, cubeCards, packs, analytics, pend, adds>>
    /\ UNCHANGED editVars

\* saveDraftAnalytics reads the analytics of the cube
FoldRead(p) ==
    /\ sub[p].pc = "fold"
    /\ sub' = [sub EXCEPT ![p].pc = "write", ![p].snap = Some(analytics[sub[p].cube])]
    /\ UNCHANGED <<drafts, cubes, rq, resp, featured, adm>>
    /\ UNCHANGED <<clock, cubeCards, packs, analytics, foldLog, pend, adds>>
    /\ UNCHANGED editVars

\* and writes them back with the draft folded in
FoldPersist(p) ==
    /\ sub[p].pc = "write"
    /\ ~AnalyticStale(sub[p].snap[1], analytics[sub[p].cube])
    /\ analytics' = [analytics EXCEPT ![sub[p].cube] =
                        [picks |-> Fold(sub[p].snap[1].picks, sub[p].cards, sub[p].seats),
                         v |-> sub[p].snap[1].v + 1]]
    /\ sub' = [sub EXCEPT ![p].pc = "send"]
    /\ UNCHANGED <<drafts, cubes, rq, resp, featured, adm>>
    /\ UNCHANGED <<clock, cubeCards, packs, foldLog, pend, adds>>
    /\ UNCHANGED editVars

\* the write was refused: read again
FoldRetry(p) ==
    /\ sub[p].pc = "write"
    /\ AnalyticStale(sub[p].snap[1], analytics[sub[p].cube])
    /\ sub' = [sub EXCEPT ![p].pc = "fold", ![p].snap = Null, ![p].retries = @ + 1]
    /\ UNCHANGED <<drafts, cubes, rq, resp, featured, adm>>
    /\ UNCHANGED <<clock, cubeCards, packs, analytics, foldLog, pend, adds>>
    /\ UNCHANGED editVars

\* lines 1097-1099: res.status(200).send({success: 'true'})
SubmitSend(p) ==
    /\ sub[p].pc = "send"
    /\ sub' = [sub EXCEPT ![p].pc = "done", ![p].status = 200]
    /\ foldLog' = [foldLog EXCEPT !.done =
                      Append(@, [id |-> sub[p].id, cube |-> sub[p].cube,
                                 cards |-> sub[p].cards, seats |-> sub[p].seats,
                                 retries |-> sub[p].retries])]
    /\ UNCHANGED <<drafts, cubes, rq, resp, featured, adm>>
    /\ UNCHANGED <<clock, cubeCards, packs, analytics, pend, adds>>
    /\ UNCHANGED editVars

\* the client takes the answer, or gives up waiting for one
SubmitDone(p) ==
    /\ sub[p].pc = "done"
    /\ sub' = [sub EXCEPT ![p] = IdleSubmit]
    /\ UNCHANGED <<drafts, cubes, rq, resp, featured, adm>>
    /\ UNCHANGED <<clock, cubeCards, packs, analytics, foldLog, pend, adds>>
    /\ UNCHANGED editVars

ZeroPicks == [name \in CardNames |-> 0]
SomePicks == [name \in CardNames |-> IF name = "Bolt" THEN 3 ELSE 1]

(***************************************************************************)
(* POST /redraft/:id/:seat, write by write: the handler builds the new     *)
(* draft in memory (lines 486-504), writes it (line 506), reads it back    *)
(* (line 516) and answers. Other requests read the Draft collection in     *)
(* between (every redraft starts with Draft.findById, line 469).           *)
(***************************************************************************)
\* The writes to the store a field-by-field redraft would make.
DraftWritesByField(srcDraft, seat, user) ==
    LET rotated == [srcDraft EXCEPT !.seats = rotateArrayLeft(srcDraft.seats, seat)]
        cleared == [rotated EXCEPT
                       !.seats = [i \in DOMAIN rotated.seats |-> ClearSeat(rotated.seats[i])]]
    IN  <<rotated, cleared, NewDraft(srcDraft, seat, user)>>

\* The writes the handler makes: draft.save(), once, of the finished document.
DraftWrites(srcDraft, seat, user) == <<NewDraft(srcDraft, seat, user)>>

NoPending ==
    [pc |-> "idle", writes |-> << >>, target |-> 0, seenId |-> 0, seen |-> Null]

\* lines 467-504: the checks, and the new draft built in memory
RedraftBegin(id, seatParam, user) ==
    /\ pend.pc = "idle"
    /\ Len(drafts) < MaxDrafts
    /\ LET r == RedraftHandler(drafts, cubes, id, seatParam, user)
       IN  IF r.resp.kind # "json"
           THEN /\ resp' = r.resp
                /\ pend' = [pend EXCEPT !.pc = "sent"]
           ELSE /\ resp' = NoResponse
                /\ pend' = [pend EXCEPT
                               !.pc = "save",
                               !.writes = DraftWrites(findById(drafts, id)[1],
                                                      parseInt(seatParam).val, user),
                               !.target = Len(drafts) + 1]
    /\ UNCHANGED <<drafts, cubes, rq, featured, adm>>
    /\ UNCHANGED <<clock, cubeCards, packs, analytics, sub, foldLog, adds>>
    /\ UNCHANGED editVars

\* line 506: a write reaches the store
RedraftWrite ==
    /\ pend.pc = "save"
    /\ pend.writes # << >>
    /\ drafts' = IF pend.target > Len(drafts) THEN Append(drafts, Head(pend.writes))
                 ELSE [drafts EXCEPT ![pend.target] = Head(pend.writes)]
    /\ pend' = [pend EXCEPT !.writes = Tail(@),
                            !.pc = IF Tail(pend.writes) = << >> THEN "read" ELSE "save"]
    /\ UNCHANGED <<cubes, rq, resp, featured, adm>>
    /\ UNCHANGED <<clock, cubeCards, packs, analytics, sub, foldLog, adds>>
    /\ UNCHANGED editVars

\* lines 516-527: the new draft is read back and sent
RedraftSend ==
    /\ pend.pc = "read"
    /\ resp' = SendDraft(pend.target)
    /\ pend' = [pend EXCEPT !.pc = "sent"]
    /\ UNCHANGED <<drafts, cubes, rq, featured, adm>>
    /\ UNCHANGED <<clock, cubeCards, packs, analytics, sub, foldLog, adds>>
    /\ UNCHANGED editVars

\* the response has gone out
RedraftSent ==
    /\ pend.pc = "sent"
    /\ pend' = NoPending
    /\ resp' = NoResponse
    /\ UNCHANGED <<drafts, cubes, rq, featured, adm>>
    /\ UNCHANGED <<clock, cubeCards, packs, analytics, sub, foldLog, adds>>
    /\ UNCHANGED editVars

\* line 469 of another request: Draft.findById(req.params.id).lean()
ReadDraft(id) ==
    /\ pend.pc \in {"save", "read"}
    /\ pend' = [pend EXCEPT !.seenId = id, !.seen = findById(drafts, id)]
    /\ UNCHANGED <<drafts, cubes, rq, resp, featured, adm>>
    /\ UNCHANGED <<clock, cubeCards, packs, analytics, sub, foldLog, adds>>
    /\ UNCHANGED editVars

(***************************************************************************)
(* POST /adds/:id: the recommendations of the service at FLASKROOT.        *)
(***************************************************************************)
\* Object.entries(additions): [name, score] pairs, one for a name
Scores == {1, 2}

Entries ==
    {<< >>}
    \cup {<<<<n, v>>>> : n \in CardNames, v \in Scores}
    \cup {<<p[1], p[2]>> :
             p \in {q \in (CardNames \X Scores) \X (CardNames \X Scores) :
                       q[1][1] # q[2][1]}}

\* what fetch comes to: an answer with a success status, an answer with
\* another status, or no answer at all (the promise is rejected)
ServiceReplies ==
    {[kind |-> "ok", additions |-> a, cuts |-> c] : a \in Entries, c \in Entries}
    \cup {[kind |-> k, additions |-> << >>, cuts |-> << >>] : k \in {"notOk", "unreachable"}}

\* entries.sort(before): insertion of each entry after those not behind it
RECURSIVE SortEntries(_, _)
SortEntries(entries, descending) ==
    IF entries = << >> THEN << >>
    ELSE LET rest == SortEntries(Tail(entries), descending)
             e == Head(entries)
             \* a stable sort keeps e, which came first, before its equals
             k == Cardinality({i \in DOMAIN rest :
                                  IF descending THEN rest[i][2] > e[2] ELSE rest[i][2] < e[2]})
         IN  SubSeq(rest, 1, k) \o <<e>> \o SubSeq(rest, k + 1, Len(rest))

\* formatTuple: the card of the name
formatTuple(tuple) == tuple[1]

NoReply == [kind |-> "", additions |-> << >>, cuts |-> << >>]

NoAdds ==
    [pc |-> "idle", service |-> NoReply, status |-> 0, success |-> "", keys |-> {},
     toAdd |-> << >>, toCut |-> << >>, logged |-> Null, threw |-> FALSE]

MsgFlaskNotOk == "Flask server response not OK."

\* The handler: what it logs and what it sends, or that it threw.
AddsHandler(reply) ==
    IF reply.kind = "unreachable"
    THEN [NoAdds EXCEPT !.pc = "done", !.service = reply, !.threw = TRUE]
    ELSE IF reply.kind = "notOk"
    THEN [NoAdds EXCEPT !.pc = "done", !.service = reply, !.status = 500,
                        !.success = "false", !.logged = Some(MsgFlaskNotOk)]
    ELSE LET addlist == SortEntries(reply.additions, TRUE)
             cutlist == SortEntries(reply.cuts, FALSE)
         IN  [NoAdds EXCEPT !.pc = "done", !.service = reply, !.status = 200,
                            !.success = "true", !.keys = {"toAdd", "toCut"},
                            !.toAdd = [i \in DOMAIN addlist |-> formatTuple(addlist[i])],
                            !.toCut = [i \in DOMAIN cutlist |-> formatTuple(cutlist[i])]]

Adds(reply) ==
    /\ adds.pc = "idle"
    /\ adds' = AddsHandler(reply)
    /\ UNCHANGED <<drafts, cubes, rq, resp, featured, adm>>
    /\ UNCHANGED <<clock, cubeCards, packs, analytics, sub, foldLog, pend>>
    /\ UNCHANGED editVars

\* the request is over
AddsDone ==
    /\ adds.pc = "done"
    /\ adds' = NoAdds
    /\ UNCHANGED <<drafts, cubes, rq, resp, featured, adm>>
    /\ UNCHANGED <<clock, cubeCards, packs, analytics, sub, foldLog, pend>>
    /\ UNCHANGED editVars

\* line 821: the request to the service is sent, and the handler waits for
\* the promise of fetch to settle. fetch is given no timeout option.
AddsFetch ==
    /\ adds.pc = "idle"
    /\ adds' = [NoAdds EXCEPT !.pc = "waiting"]
    /\ UNCHANGED <<drafts, cubes, rq, resp, featured, adm>>
    /\ UNCHANGED <<clock, cubeCards, packs, analytics, sub, foldLog, pend>>
    /\ UNCHANGED editVars

\* the promise settles, with an answer or a rejection, and the handler runs on
AddsSettle(reply) ==
    /\ adds.pc = "waiting"
    /\ adds' = AddsHandler(reply)
    /\ UNCHANGED <<drafts, cubes, rq, resp, featured, adm>>
    /\ UNCHANGED <<clock, cubeCards, packs, analytics, sub, foldLog, pend>>
    /\ UNCHANGED editVars

(***************************************************************************)
(* POST /updatecard/:id: the owner replaces the entry at src.index of the  *)
(* cube's card list by the fields of the request over those of the entry.  *)
(***************************************************************************)
\* A JavaScript value of a request body or of a stored entry: a number (num
\* holds four times the number, so that halves and quarters are integers)
\* or a string. A property that is null is Null, one that holds v is Some(v).
JSNum(n4) == [type |-> "number", num |-> n4, str |-> ""]
JSStr(t) == [type |-> "string", num |-> 0, str |-> t]

\* obj[key], undefined and null alike being Null
Field(obj, key) == IF key \in DOMAIN obj THEN obj[key] ELSE Null

\* whether `if (x)` takes a property
Truthy(x) == x # Null /\ (IF x[1].type = "number" THEN x[1].num # 0 ELSE x[1].str # "")

TypeIs(x, type) == x # Null /\ x[1].type = type

\* Cube.schema.paths.cards.schema.paths: the fields of an entry
SchemaKeys == {"cardID", "status", "cmc", "type_line"}

\* carddb.cardFromId(cardID)
cardFromId(cardID) ==
    [type |-> IF cardID = Some(JSStr("c1")) THEN "Instant" ELSE "Creature"]

\* the entries a list is made of: the second has no type_line of its own
EntryOf(cardID, status, cmc, typeLine) ==
    [k \in (IF typeLine = "" THEN SchemaKeys \ {"type_line"} ELSE SchemaKeys) |->
        CASE k = "cardID" -> Some(JSStr(cardID))
          [] k = "status" -> Some(JSStr(status))
          [] k = "cmc" -> Some(JSNum(cmc))
          [] OTHER -> Some(JSStr(typeLine))]

StoredEntries ==
    {EntryOf("c1", "Owned", 4, "Instant"),
     EntryOf("c3", "Owned", 12, ""),
     EntryOf("c3", "Not Owned", 12, "Creature")}

\* lines 701-704: an entry without type_line is given the type of its card
WithTypeLine(card) ==
    IF Truthy(Field(card, "type_line")) THEN card
    ELSE [k \in DOMAIN card \cup {"type_line"} |->
            IF k = "type_line" THEN Some(JSStr(cardFromId(Field(card, "cardID")).type))
            ELSE card[k]]

\* cardsAreEquivalent(src, card) of serverjs/cubefn.js: the same card, with
\* the same fields
cardsAreEquivalent(a, b) == \A k \in SchemaKeys : Field(a, k) = Field(b, k)

\* lines 669-679: the test of the request body
UpdateCardInvalid(src, updated) ==
    \/ src = Null
    \/ ~TypeIs(src[1].index, "number")
    \/ Truthy(Field(updated, "cardID")) /\ ~TypeIs(updated["cardID"], "string")
    \/ /\ Truthy(Field(updated, "cmc"))
       /\ \/ ~TypeIs(updated["cmc"], "number")
          \/ updated["cmc"][1].num < 0
          \/ updated["cmc"][1].num % 2 # 0
    \/ Truthy(Field(updated, "status")) /\ ~TypeIs(updated["status"], "string")
    \/ Truthy(Field(updated, "type_line")) /\ ~TypeIs(updated["type_line"], "string")

\* lines 713-722: the fields of the request over those of the entry; a field
\* the request holds as null is deleted
MergeStoredWins(updated, card) ==
    [k \in {j \in SchemaKeys : j \in DOMAIN card \/ Field(updated, j) # Null} |->
        IF k \in DOMAIN card THEN card[k] ELSE updated[k]]

MergeCard(updated, card) ==
    [k \in {j \in SchemaKeys :
               IF j \in DOMAIN updated THEN updated[j] # Null ELSE j \in DOMAIN card} |->
        IF k \in DOMAIN updated THEN updated[k] ELSE card[k]]

NoUpdate ==
    [op |-> "none", id |-> 0, user |-> Null, src |-> Null, updated |-> << >>,
     selected |-> << >>, before |-> << >>, status |-> 0, message |-> "",
     threw |-> FALSE]

UpdateAnswer(cards, status, message) ==
    [cards |-> cards, status |-> status, message |-> message, threw |-> FALSE]

\* cube.cards[src.index] is undefined: reading card.type_line throws
UpdateThrew(cards) ==
    [cards |-> cards, status |-> 0, message |-> "TypeError", threw |-> TRUE]

\* whether cube.cards[index] is an entry, for an index below the length
IsElementIndex(cards, n4) == n4 >= 0 /\ n4 % 4 = 0

\* The handler: the card list it leaves and the answer it sends. The user is
\* logged in (ensureAuth).
UpdateCardHandler(cards, cube, user, src, updated) ==
    IF UpdateCardInvalid(src, updated)
    THEN UpdateAnswer(cards, 400, "Failed input validation")
    ELSE IF ~isCubeViewable(cube, user)
    THEN UpdateAnswer(cards, 404, "Cube not found")
    ELSE IF user[1]._id # cube[1].owner
    THEN UpdateAnswer(cards, 401, "Insufficient permissions")
    ELSE IF src[1].index[1].num >= 4 * Len(cards)
    THEN UpdateAnswer(cards, 400, "No such card")
    ELSE IF ~IsElementIndex(cards, src[1].index[1].num)
    THEN UpdateThrew(cards)
    ELSE LET i == (src[1].index[1].num \div 4) + 1
             card == WithTypeLine(cards[i])
         IN  IF ~cardsAreEquivalent(src[1].card, card)
             THEN UpdateAnswer(cards, 400, "Cards not equivalent")
             ELSE UpdateAnswer([cards EXCEPT ![i] = MergeCard(updated, card)], 200, "")

\* req.body.src: nothing, or the client's copy of an entry with its index
IndexParams ==
    {Null, Some(JSStr("0")), Some(JSNum(0 - 4)), Some(JSNum(2))}
    \cup {Some(JSNum(4 * i)) : i \in 0 .. MaxCards}

SrcCards == StoredEntries \cup {WithTypeLine(e) : e \in StoredEntries}

SrcParams ==
    {Null} \cup {Some([index |-> i, card |-> c]) : i \in IndexParams, c \in SrcCards}

\* req.body.updated: for each field nothing, null, or a value
UpdatedValues(k) ==
    CASE k = "cardID" -> {Some(JSStr("c2"))}
      [] k = "status" -> {Null, Some(JSStr("Proxied")), Some(JSNum(4))}
      [] k = "cmc" -> {Null, Some(JSNum(8)), Some(JSNum(1))}
      [] OTHER -> {Some(JSStr("Sorcery"))}

UpdatedParams ==
    {u \in UNION {[K -> UNION {UpdatedValues(k) : k \in SchemaKeys}] : K \in SUBSET SchemaKeys} :
        \A k \in DOMAIN u : u[k] \in UpdatedValues(k)}

LoggedIn == Viewers \ {Null}

UpdateCard(id, user, src, updated) ==
    /\ upd.op = "none"
    /\ LET r == UpdateCardHandler(IF id \in DOMAIN cardList THEN cardList[id] ELSE << >>,
                                  findCube(cubes, id), user, src, updated)
       IN  /\ cardList' = IF id \in DOMAIN cardList THEN [cardList EXCEPT ![id] = r.cards]
                          ELSE cardList
           /\ upd' = [NoUpdate EXCEPT !.op = "updatecard", !.id = id, !.user = user,
                                      !.src = src, !.updated = updated,
                                      !.before = IF id \in DOMAIN cardList
                                                 THEN cardList[id] ELSE << >>,
                                      !.status = r.status, !.message = r.message,
                                      !.threw = r.threw]
    /\ UNCHANGED <<drafts, cubes, rq, resp, featured, adm>>
    /\ UNCHANGED <<clock, cubeCards, packs, analytics, sub, foldLog, pend, adds>>
    /\ UNCHANGED <<setq, rd, content, rev>>

(***************************************************************************)
(* POST /updatecards/:id: the owner sets fields of the entries at the      *)
(* selected indices with one update of the stored document.  The bodies    *)
(* drawn name the fields status, cmc and type_line.                        *)
(***************************************************************************)
BulkKeys == {"status", "cmc", "type_line"}

\* Number.isInteger(index)
IsInteger(v) == v.type = "number" /\ v.num % 4 = 0

\* lines 744-752: the test of the request body
UpdateCardsInvalid(selected, updated) ==
    \/ Truthy(Field(updated, "cmc")) /\ ~TypeIs(updated["cmc"], "number")
    \/ Truthy(Field(updated, "status")) /\ ~TypeIs(updated["status"], "string")
    \/ Truthy(Field(updated, "type_line")) /\ ~TypeIs(updated["type_line"], "string")
    \/ selected = Null
    \/ \E j \in DOMAIN selected[1] : ~IsInteger(selected[1][j]) \/ selected[1][j].num < 0

\* lines 773-809: the fields of $set, the same for every selected index
SetKeys(updated) == {k \in BulkKeys : Truthy(Field(updated, k))}

SelectedIndices(selected) == {(selected[1][j].num \div 4) + 1 : j \in DOMAIN selected[1]}

\* an element the database pads an array with
NullEntry == [k \in {} |-> Null]

Max(S) == CHOOSE m \in S : \A n \in S : n <= m

\* cube.updateOne({$set: {'cards.<index>.<field>': value, ...}}): the
\* database sets the fields of the elements named; an element named beyond
\* the end of the array is created, the array being padded with nulls up to
\* it.
SetFields(cards, indices, keys, updated) ==
    IF keys = {} \/ indices = {} THEN cards
    ELSE [j \in 1 .. Max(indices \cup {Len(cards)}) |->
            LET e == IF j <= Len(cards) THEN cards[j] ELSE NullEntry
            IN  IF j \in indices
                THEN [k \in DOMAIN e \cup keys |-> IF k \in keys THEN updated[k] ELSE e[k]]
                ELSE e]

UpdateCardsHandler(cards, cube, user, selected, updated) ==
    IF UpdateCardsInvalid(selected, updated)
    THEN UpdateAnswer(cards, 400, "Failed input validation")
    ELSE IF ~isCubeViewable(cube, user)
    THEN UpdateAnswer(cards, 404, "Cube not found")
    ELSE IF user[1]._id # cube[1].owner
    THEN UpdateAnswer(cards, 403, "Unauthorized")
    ELSE UpdateAnswer(SetFields(cards, SelectedIndices(selected), SetKeys(updated), updated),
                      200, "")

\* req.body.selected: not an array, or an array of up to two indices
SelectedValues ==
    {JSNum(0 - 4), JSNum(2)} \cup {JSNum(4 * i) : i \in 0 .. MaxCards}

SelectedParams ==
    {Null} \cup {Some(q) : q \in UNION {[1 .. n -> SelectedValues] : n \in 0 .. 2}}

UpdateCards(id, user, selected, updated) ==
    /\ upd.op = "none"
    /\ LET r == UpdateCardsHandler(IF id \in DOMAIN cardList THEN cardList[id] ELSE << >>,
                                   findCube(cubes, id), user, selected, updated)
       IN  /\ cardList' = IF id \in DOMAIN cardList THEN [cardList EXCEPT ![id] = r.cards]
                          ELSE cardList
           /\ upd' = [NoUpdate EXCEPT !.op = "updatecards", !.id = id, !.user = user,
                                      !.selected = selected, !.updated = updated,
                                      !.before = IF id \in DOMAIN cardList
                                                 THEN cardList[id] ELSE << >>,
                                      !.status = r.status, !.message = r.message]
    /\ UNCHANGED <<drafts, cubes, rq, resp, featured, adm>>
    /\ UNCHANGED <<clock, cubeCards, packs, analytics, sub, foldLog, pend, adds>>
    /\ UNCHANGED <<setq, rd, content, rev>>

\* the answer has reached the client
UpdateDone ==
    /\ upd.op \notin {"none", "done"}
    /\ upd' = [NoUpdate EXCEPT !.op = "done"]
    /\ UNCHANGED <<drafts, cubes, rq, resp, featured, adm>>
    /\ UNCHANGED <<clock, cubeCards, packs, analytics, sub, foldLog, pend, adds>>
    /\ UNCHANGED <<cardList, setq, rd, content, rev>>

\* the card lists a cube can hold
EntryLists == UNION {[1 .. n -> StoredEntries] : n \in 0 .. MaxCards}

(***************************************************************************)
(* POST /settings/:id: the owner sets the visibility of a cube.  The       *)
(* handler reads the cube, asks isInFeaturedQueue when the cube is to      *)
(* become private, and saves the cube; other requests run at each await.   *)
(* Of the cube's fields the model keeps isPrivate and owner; no cube is    *)
(* marked isFeatured, which only a rotation does.                          *)
(***************************************************************************)
VisibilityParams == {"public", "unlisted", "private", "hidden"}

\* body('visibility').isIn(['public', 'unlisted', 'private'])
SettingsValidated(visibility) == visibility \in {"public", "unlisted", "private"}

MsgInQueue == "Cannot set a cube in featured queue as private"

IdleSettings ==
    [pc |-> "idle", id |-> 0, user |-> Null, visibility |-> "", cube |-> Null,
     status |-> 0, flash |-> ""]

SettingsAnswer(slot, status) == [slot EXCEPT !.pc = "done", !.status = status]

\* isInFeaturedQueue(cube) of serverjs/featuredQueue.js
isInFeaturedQueue(queue, cubeId) == \E i \in 1 .. Len(queue) : queue[i].cubeID = cubeId

\* lines 184-207 and 215-224: up to the first await after the cube is read
SettingsBegin(id, user, visibility) ==
    /\ setq.pc = "idle"
    /\ LET slot == [IdleSettings EXCEPT !.id = id, !.user = user,
                                        !.visibility = visibility]
           cube == findCube(cubes, id)
       IN  setq' =
              IF ~SettingsValidated(visibility) THEN SettingsAnswer(slot, 422)
              ELSE IF ~isCubeViewable(cube, user) THEN SettingsAnswer(slot, 404)
              ELSE IF user[1]._id # cube[1].owner THEN SettingsAnswer(slot, 403)
              ELSE IF visibility = "private"
              THEN [slot EXCEPT !.pc = "check", !.cube = cube]
              ELSE [slot EXCEPT !.pc = "save",
                                !.cube = Some([cube[1] EXCEPT !.isPrivate = FALSE])]
    /\ UNCHANGED <<drafts, cubes, rq, resp, featured, adm>>
    /\ UNCHANGED <<clock, cubeCards, packs, analytics, sub, foldLog, pend, adds>>
    /\ UNCHANGED <<cardList, upd, rd, content, rev>>

\* lines 208-214: the cube becomes private unless it is in the queue now
SettingsCheck ==
    /\ setq.pc = "check"
    /\ setq' =
          IF isInFeaturedQueue(featured.queue, setq.id)
          THEN [setq EXCEPT !.pc = "save", !.flash = MsgInQueue]
          ELSE [setq EXCEPT !.pc = "save",
                            !.cube = Some([setq.cube[1] EXCEPT !.isPrivate = TRUE])]
    /\ UNCHANGED <<drafts, cubes, rq, resp, featured, adm>>
    /\ UNCHANGED <<clock, cubeCards, packs, analytics, sub, foldLog, pend, adds>>
    /\ UNCHANGED <<cardList, upd, rd, content, rev>>

\* lines 229-232: cube.save() and the answer
SettingsSave ==
    /\ setq.pc = "save"
    /\ cubes' = [cubes EXCEPT ![setq.id].isPrivate = setq.cube[1].isPrivate]
    /\ setq' = SettingsAnswer(setq, 200)
    /\ UNCHANGED <<drafts, rq, resp, featured, adm>>
    /\ UNCHANGED <<clock, cubeCards, packs, analytics, sub, foldLog, pend, adds>>
    /\ UNCHANGED <<cardList, upd, rd, content, rev>>

SettingsDone ==
    /\ setq.pc = "done"
    /\ setq' = IdleSettings
    /\ UNCHANGED <<drafts, cubes, rq, resp, featured, adm>>
    /\ UNCHANGED <<clock, cubeCards, packs, analytics, sub, foldLog, pend, adds>>
    /\ UNCHANGED <<cardList, upd, rd, content, rev>>

(***************************************************************************)
(* The read endpoints of a cube: cubecardnames, cubecardtags,              *)
(* cubetagcolors, getcardfromcube, cubelist and cubeJSON.  Each reads the  *)
(* cube, answers 404 when isCubeViewable refuses, and sends data of the    *)
(* cube otherwise; `data` is the set of cubes whose data the answer holds. *)
(***************************************************************************)
ReadEndpoints ==
    {"cubecardnames", "cubecardtags", "cubetagcolors", "getcardfromcube",
     "cubelist", "cubeJSON"}

NoRead ==
    [endpoint |-> "none", id |-> 0, bId |-> Null, user |-> Null,
     status |-> 0, data |-> {}, threw |-> FALSE]

ReadAnswer(status, data) == [status |-> status, data |-> data, threw |-> FALSE]

\* req.status(404): a request has no method status, the call throws
ReadThrew == [status |-> 0, data |-> {}, threw |-> TRUE]

\* what each handler hands to isCubeViewable as the user: cubelist hands
\* req.status, a property no request has
ViewerArgument(endpoint, user) == IF endpoint = "cubelist" THEN Null ELSE user

\* the branch taken when the cube is not viewable
NotViewableAnswer(endpoint) ==
    IF endpoint \in {"cubetagcolors", "getcardfromcube"}
    THEN ReadThrew
    ELSE ReadAnswer(404, {})

ReadHandler(cubeStore, endpoint, id, bId, user) ==
    LET cube == findCube(cubeStore, id)
        cubeB == IF bId = Null THEN Null ELSE findCube(cubeStore, bId[1])
    IN  IF ~isCubeViewable(cube, ViewerArgument(endpoint, user))
        THEN NotViewableAnswer(endpoint)
        ELSE IF endpoint = "cubetagcolors" /\ cubeB # Null
        THEN IF ~isCubeViewable(cubeB, user)
             THEN ReadAnswer(404, {})
             ELSE ReadAnswer(200, {id, bId[1]})
        ELSE ReadAnswer(200, {id})

ReadCubeParams == {0, 1, 2}

\* req.query.b_id
CompareParams == {Null} \cup {Some(c) : c \in ReadCubeParams}

Read(endpoint, id, bId, user) ==
    /\ rd.endpoint = "none"
    /\ LET r == ReadHandler(cubes, endpoint, id, bId, user)
       IN  rd' = [endpoint |-> endpoint, id |-> id, bId |-> bId, user |-> user,
                  status |-> r.status, data |-> r.data, threw |-> r.threw]
    /\ UNCHANGED <<drafts, cubes, rq, resp, featured, adm>>
    /\ UNCHANGED <<clock, cubeCards, packs, analytics, sub, foldLog, pend, adds>>
    /\ UNCHANGED <<cardList, upd, setq, content, rev>>

ReadDone ==
    /\ rd.endpoint # "none"
    /\ rd' = NoRead
    /\ UNCHANGED <<drafts, cubes, rq, resp, featured, adm>>
    /\ UNCHANGED <<clock, cubeCards, packs, analytics, sub, foldLog, pend, adds>>
    /\ UNCHANGED <<cardList, upd, setq, content, rev>>

(***************************************************************************)
(* The review routes: an admin publishes (publisharticle, publishvideo,    *)
(* publishpodcast) or declines (removearticlereview, removevideoreview,    *)
(* removepodcastreview) the item under review.  Each handler reads the     *)
(* item, tests its status, sets status and date on its copy, looks up the  *)
(* owner, saves the copy, and then notifies and mails the owner.  One item *)
(* of each kind is stored; rev.log keeps, for each, the status it had at   *)
(* first and the numbers of saves and of messages to its owner.            *)
(***************************************************************************)
ContentKinds == {"article", "video", "podcast"}

ReviewActions == {"publish", "decline"}

ContentStatuses == {"inReview", "published", "draft"}

\* the status a decision gives the item
DecidedStatus(action) == IF action = "publish" THEN "published" ELSE "draft"

Document(status) == [status |-> status, date |-> "submitted"]

IdleReview ==
    [pc |-> "idle", action |-> "none", kind |-> "none", doc |-> Document("draft"),
     flashType |-> ""]

NoReviewLog == [first |-> "draft", saves |-> 0, notes |-> 0, mails |-> 0]

\* findById, the test of the status, and the new status and date on the copy
ReviewBegin(p, action, kind) ==
    /\ rev.slot[p].pc = "idle"
    /\ LET doc == content[kind]
           slot == [IdleReview EXCEPT !.action = action, !.kind = kind, !.doc = doc]
       IN  rev' = [rev EXCEPT !.slot[p] =
              IF doc.status # "inReview"
              THEN [slot EXCEPT !.pc = "done", !.flashType = "danger"]
              ELSE [slot EXCEPT !.pc = "save",
                                !.doc = [status |-> DecidedStatus(action),
                                         date |-> "decided"]]]
    /\ UNCHANGED <<drafts, cubes, rq, resp, featured, adm>>
    /\ UNCHANGED <<clock, cubeCards, packs, analytics, sub, foldLog, pend, adds>>
    /\ UNCHANGED <<cardList, upd, setq, rd, content>>

\* item.save(): the copy's status and date are written to the store
SaveContent(store, slot) == [store EXCEPT ![slot.kind] = slot.doc]

ReviewSave(p) ==
    /\ rev.slot[p].pc = "save"
    /\ content' = SaveContent(content, rev.slot[p])
    /\ rev' = [rev EXCEPT !.slot[p].pc = "notify",
                          !.log[rev.slot[p].kind].saves = @ + 1]
    /\ UNCHANGED <<drafts, cubes, rq, resp, featured, adm>>
    /\ UNCHANGED <<clock, cubeCards, packs, analytics, sub, foldLog, pend, adds>>
    /\ UNCHANGED <<cardList, upd, setq, rd>>

\* util.addNotification to the owner, the mail, and the flash of success
ReviewNotify(p) ==
    /\ rev.slot[p].pc = "notify"
    /\ rev' = [rev EXCEPT !.slot[p].pc = "done",
                          !.slot[p].flashType = "success",
                          !.log[rev.slot[p].kind].notes = @ + 1,
                          !.log[rev.slot[p].kind].mails = @ + 1]
    /\ UNCHANGED <<drafts, cubes, rq, resp, featured, adm>>
    /\ UNCHANGED <<clock, cubeCards, packs, analytics, sub, foldLog, pend, adds>>
    /\ UNCHANGED <<cardList, upd, setq, rd, content>>

\* the redirect has gone out; the session is free for its next request
ReviewDone(p) ==
    /\ rev.slot[p].pc = "done"
    /\ rev' = [rev EXCEPT !.slot[p] = IdleReview]
    /\ UNCHANGED <<drafts, cubes, rq, resp, featured, adm>>
    /\ UNCHANGED <<clock, cubeCards, packs, analytics, sub, foldLog, pend, adds>>
    /\ UNCHANGED <<cardList, upd, setq, rd, content>>

NoReviews ==
    [slot |-> [p \in Admins |-> IdleReview], log |-> [k \in ContentKinds |-> NoReviewLog]]

\* the card-list, settings, read and review routes are at rest
InitEditIdle ==
    /\ cardList = [c \in CubeIds |-> << >>]
    /\ upd = NoUpdate
    /\ setq = IdleSettings
    /\ rd = NoRead
    /\ content = [k \in ContentKinds |-> Document("draft")]
    /\ rev = NoReviews

\* the routes of the other parts are at rest
InitApiIdle ==
    /\ clock = 0
    /\ cubeCards = [c \in CubeIds |-> NoCards]
    /\ packs = << >>
    /\ analytics = [c \in CubeIds |-> Analytic(ZeroPicks)]
    /\ sub = [p \in Clients |-> IdleSubmit]
    /\ foldLog = NoFolds(ZeroPicks)
    /\ pend = NoPending
    /\ adds = NoAdds
    /\ InitEditIdle

InitRedraft ==
    /\ drafts \in {<<d>> : d \in SourceDrafts}
    /\ cubes \in {[c \in CubeIds |->
                     IF c = 1 THEN k ELSE PublicCube(CubeOwner(c))] :
                  k \in {PublicCube("u1"), PrivateCube("u1"), DeletedCube("u1")}}
    /\ rq = NoRequest
    /\ resp = NoResponse
    /\ featured = NoFeatured
    /\ adm = [p \in Admins |-> IdleSlot]
    /\ InitApiIdle

\* The response has gone out; the server takes the next request.
RedraftDone ==
    /\ rq.op = "redraft"
    /\ rq' = NoRequest
    /\ resp' = NoResponse
    /\ UNCHANGED <<drafts, cubes, featured, adm>>
    /\ UNCHANGED apiVars

NextRedraft ==
    \/ \E id \in DraftIdParams, seatParam \in SeatParams, user \in Viewers :
           Redraft(id, seatParam, user)
    \/ RedraftDone

SpecRedraft == InitRedraft /\ [][NextRedraft]_vars

(***************************************************************************)
(* The featured queue, worked by one admin session while another changes   *)
(* the rotation period. The queue starts empty.                            *)
(***************************************************************************)
InitQueue ==
    /\ drafts = << >>
    /\ cubes \in {[c \in CubeIds |-> IF c = 1 THEN k ELSE PublicCube(CubeOwner(c))] :
                  k \in {PublicCube("u1"), PrivateCube("u1")}}
    /\ rq = NoRequest
    /\ resp = NoResponse
    /\ featured = NoFeatured
    /\ adm = [p \in Admins |-> IdleSlot]
    /\ InitApiIdle

QueueAdmins == {1}

NextQueue ==
    \/ \E p \in QueueAdmins, cubeId \in CubeIdParams : AdminQueue(p, cubeId)
    \/ \E p \in QueueAdmins, cubeId \in CubeIdParams : AdminUnqueue(p, cubeId)
    \/ \E p \in QueueAdmins, cubeId \in CubeIdParams,
          from \in MoveIndexParams, to \in MoveIndexParams :
           AdminMove(p, cubeId, from, to)
    \/ \E p \in QueueAdmins : UpdateApply(p)
    \/ \E p \in QueueAdmins : UpdatePersist(p)
    \/ \E p \in QueueAdmins : UpdateRetry(p)
    \/ \E p \in QueueAdmins : AdminDone(p)
    \/ \E daysParam \in DaysParams : SetPeriod(daysParam)

SpecQueue == InitQueue /\ [][NextQueue]_vars

(***************************************************************************)
(* Sample packs of cube 1, asked for by anyone, with or without a seed.    *)
(***************************************************************************)
InitPacks ==
    /\ drafts = << >>
    /\ cubes \in {[c \in CubeIds |-> IF c = 1 THEN k ELSE PublicCube(CubeOwner(c))] :
                  k \in {PublicCube("u1"), PrivateCube("u1")}}
    /\ rq = NoRequest
    /\ resp = NoResponse
    /\ featured = NoFeatured
    /\ adm = [p \in Admins |-> IdleSlot]
    /\ clock = 0
    /\ cubeCards \in {[c \in CubeIds |-> IF c = 1 THEN [cards |-> l, template |-> t]
                                         ELSE NoCards] :
                      l \in CardLists, t \in PackTemplates}
    /\ packs = << >>
    /\ analytics = [c \in CubeIds |-> Analytic(ZeroPicks)]
    /\ sub = [p \in Clients |-> IdleSubmit]
    /\ foldLog = NoFolds(ZeroPicks)
    /\ pend = NoPending
    /\ adds = NoAdds
    /\ InitEditIdle

NextPacks ==
    \/ \E id \in PackCubeParams, user \in Viewers : P1P1(id, user)
    \/ \E id \in PackCubeParams, seedParam \in KnownSeeds(packs), user \in Viewers :
           P1P1Seed(id, seedParam, user)
    \/ Tick

SpecPacks == InitPacks /\ [][NextPacks]_vars

(***************************************************************************)
(* Two clients submit the seats of two stored drafts of cube 1.            *)
(***************************************************************************)
InitSubmit ==
    /\ drafts \in {<<StoredDraft(a), StoredDraft(b)>> :
                      a \in {SeatsUnderWay, SeatsPicked}, b \in {SeatsFresh, SeatsPicked}}
    /\ cubes = [c \in CubeIds |-> PublicCube(CubeOwner(c))]
    /\ rq = NoRequest
    /\ resp = NoResponse
    /\ featured = NoFeatured
    /\ adm = [p \in Admins |-> IdleSlot]
    /\ clock = 0
    /\ cubeCards = [c \in CubeIds |-> NoCards]
    /\ packs = << >>
    /\ \E picks \in {ZeroPicks, SomePicks} :
           /\ analytics = [c \in CubeIds |-> Analytic(IF c = 1 THEN picks ELSE ZeroPicks)]
           /\ foldLog = NoFolds(picks)
    /\ sub = [p \in Clients |-> IdleSubmit]
    /\ pend = NoPending
    /\ adds = NoAdds
    /\ InitEditIdle

NextSubmit ==
    \/ \E p \in Clients, id \in SubmitIdParams, seats \in SeatsBodies :
           SubmitDraft(p, id, seats)
    \/ \E p \in Clients : FoldRead(p)
    \/ \E p \in Clients : FoldPersist(p)
    \/ \E p \in Clients : FoldRetry(p)
    \/ \E p \in Clients : SubmitSend(p)
    \/ \E p \in Clients : SubmitDone(p)

SpecSubmit == InitSubmit /\ [][NextSubmit]_vars

(***************************************************************************)
(* A redraft of a stored draft, its writes seen by a reader; and the       *)
(* requests for recommendations.                                           *)
(***************************************************************************)
NextRedraftWrites ==
    \/ \E id \in DraftIdParams, seatParam \in SeatParams, user \in Viewers :
           RedraftBegin(id, seatParam, user)
    \/ RedraftWrite
    \/ RedraftSend
    \/ RedraftSent
    \/ \E id \in DraftIdParams : ReadDraft(id)

SpecRedraftWrites == InitRedraft /\ [][NextRedraftWrites]_vars

NextAdds ==
    \/ \E reply \in ServiceReplies : Adds(reply)
    \/ AddsDone

(***************************************************************************)
(* The card list of cube 1 under the update requests of logged-in users.   *)
(***************************************************************************)
InitCards ==
    /\ drafts = << >>
    /\ cubes \in {[c \in CubeIds |-> IF c = 1 THEN k ELSE PublicCube(CubeOwner(c))] :
                  k \in {PublicCube("u1"), PrivateCube("u1")}}
    /\ rq = NoRequest
    /\ resp = NoResponse
    /\ featured = NoFeatured
    /\ adm = [p \in Admins |-> IdleSlot]
    /\ clock = 0
    /\ cubeCards = [c \in CubeIds |-> NoCards]
    /\ packs = << >>
    /\ analytics = [c \in CubeIds |-> Analytic(ZeroPicks)]
    /\ sub = [p \in Clients |-> IdleSubmit]
    /\ foldLog = NoFolds(ZeroPicks)
    /\ pend = NoPending
    /\ adds = NoAdds
    /\ cardList \in {[c \in CubeIds |-> IF c = 1 THEN l ELSE << >>] : l \in EntryLists}
    /\ upd = NoUpdate
    /\ setq = IdleSettings
    /\ rd = NoRead
    /\ content = [k \in ContentKinds |-> Document("draft")]
    /\ rev = NoReviews

NextCards ==
    \/ /\ upd.op = "none"
       /\ \E id \in PackCubeParams, user \in LoggedIn, src \in SrcParams,
             updated \in UpdatedParams :
              UpdateCard(id, user, src, updated)
    \/ /\ upd.op = "none"
       /\ \E id \in PackCubeParams, user \in LoggedIn, selected \in SelectedParams,
             updated \in UpdatedParams :
              UpdateCards(id, user, selected, updated)
    \/ UpdateDone

SpecCards == InitCards /\ [][NextCards]_vars

(***************************************************************************)
(* Two admin sessions work the queue at once.                              *)
(***************************************************************************)
TwoAdminCubeParams == {1, 2, 3, 4}

NextTwoAdmins ==
    \/ \E p \in Admins, cubeId \in TwoAdminCubeParams : AdminQueue(p, cubeId)
    \/ \E p \in Admins : AdminUnqueue(p, 3)
    \/ \E p \in Admins, cubeId \in {3, 4} : AdminMove(p, cubeId, 3, 4)
    \/ \E p \in Admins : UpdateApply(p)
    \/ \E p \in Admins : UpdatePersist(p)
    \/ \E p \in Admins : UpdateRetry(p)
    \/ \E p \in Admins : AdminDone(p)

SpecTwoAdmins == InitQueue /\ [][NextTwoAdmins]_vars

(***************************************************************************)
(* An admin queues cubes while their owners change their visibility.       *)
(***************************************************************************)
SettingsCubeParams == {0, 1, 2}

NextSettings ==
    \/ \E p \in QueueAdmins, cubeId \in SettingsCubeParams : AdminQueue(p, cubeId)
    \/ \E p \in QueueAdmins : UpdateApply(p)
    \/ \E p \in QueueAdmins : UpdatePersist(p)
    \/ \E p \in QueueAdmins : UpdateRetry(p)
    \/ \E p \in QueueAdmins : AdminDone(p)
    \/ \E daysParam \in DaysParams : SetPeriod(daysParam)
    \/ \E id \in SettingsCubeParams, user \in LoggedIn, visibility \in VisibilityParams :
           SettingsBegin(id, user, visibility)
    \/ SettingsCheck
    \/ SettingsSave
    \/ SettingsDone

SpecSettings == InitQueue /\ [][NextSettings]_vars

(***************************************************************************)
(* Readers of public and of private cubes.                                 *)
(***************************************************************************)
NextRead ==
    \/ \E endpoint \in ReadEndpoints, id \in ReadCubeParams, bId \in CompareParams,
          user \in Viewers :
           Read(endpoint, id, bId, user)
    \/ ReadDone

SpecRead == InitQueue /\ [][NextRead]_vars

(***************************************************************************)
(* Two admins decide on the items under review.                            *)
(***************************************************************************)
InitReview ==
    /\ drafts = << >>
    /\ cubes = [c \in CubeIds |-> PublicCube(CubeOwner(c))]
    /\ rq = NoRequest
    /\ resp = NoResponse
    /\ featured = NoFeatured
    /\ adm = [p \in Admins |-> IdleSlot]
    /\ clock = 0
    /\ cubeCards = [c \in CubeIds |-> NoCards]
    /\ packs = << >>
    /\ analytics = [c \in CubeIds |-> Analytic(ZeroPicks)]
    /\ sub = [p \in Clients |-> IdleSubmit]
    /\ foldLog = NoFolds(ZeroPicks)
    /\ pend = NoPending
    /\ adds = NoAdds
    /\ cardList = [c \in CubeIds |-> << >>]
    /\ upd = NoUpdate
    /\ setq = IdleSettings
    /\ rd = NoRead
    /\ content \in [ContentKinds -> {Document(st) : st \in ContentStatuses}]
    /\ rev = [NoReviews EXCEPT
                 !.log = [k \in ContentKinds |->
                             [NoReviewLog EXCEPT !.first = content[k].status]]]

NextReview ==
    \/ \E p \in Admins, action \in ReviewActions, kind \in ContentKinds :
           ReviewBegin(p, action, kind)
    \/ \E p \in Admins : ReviewSave(p)
    \/ \E p \in Admins : ReviewNotify(p)
    \/ \E p \in Admins : ReviewDone(p)

SpecReview == InitReview /\ [][NextReview]_vars

SpecAdds == InitQueue /\ [][NextAdds]_vars

\* The same requests with the wait for the service told apart. The server
\* takes its own steps when it can; when the service answers, and whether it
\* does, is not the server's to say.
NextAddsWait ==
    \/ AddsFetch
    \/ \E reply \in ServiceReplies : AddsSettle(reply)
    \/ AddsDone

SpecAddsWait ==
    InitQueue /\ [][NextAddsWait]_vars /\ WF_vars(AddsFetch) /\ WF_vars(AddsDone)

(***************************************************************************)
(* Properties of the redraft route. rq holds the request just handled and  *)
(* the Draft collection as the handler found it; resp holds the response.  *)
(***************************************************************************)
RedraftOk == rq.op = "redraft" /\ resp.kind = "json"

SrcDraft == rq.before[rq.id]

RedraftedDraft == drafts[resp.draft]

SeatIndex == parseInt(rq.seat).val

\* C1: after a successful redraft the new draft has the source's n seats in
\* the source order rotated left by seatIndex: new seat i is the source seat
\* (i + seatIndex) mod n. Seat 0 is handed to the viewer, so it is on seats
\* 1 .. n-1 that the source seat's occupant (name, user id) is still read.
C1_RedraftRotation ==
    RedraftOk =>
        LET n == Len(SrcDraft.seats)
        IN  /\ SeatIndex \in 0 .. n - 1
            /\ Len(RedraftedDraft.seats) = n
            /\ \A i \in 1 .. n - 1 :
                  LET src == SrcDraft.seats[((i + SeatIndex) % n) + 1]
                  IN  /\ RedraftedDraft.seats[i + 1].name = src.name
                      /\ RedraftedDraft.seats[i + 1].userid = src.userid

C1_Witness ==
    /\ RedraftOk
    /\ Len(SrcDraft.seats) = 4
    /\ SeatIndex = 2
    /\ [i \in 2 .. 4 |-> RedraftedDraft.seats[i].name] = [i \in 2 .. 4 |-> <<"D", "A", "B">>[i - 1]]

\* C2: after a successful redraft exactly one seat of the new draft is
\* human: seat 0 has a null bot descriptor and the viewer's identity (a null
\* user id and the name 'Anonymous' when nobody is logged in), and every
\* other seat has a fresh, non-null bot descriptor.
C2_OneHumanSeat ==
    RedraftOk =>
        LET seats == RedraftedDraft.seats
        IN  /\ seats[1].bot = Null
            /\ seats[1].userid = (IF rq.user = Null THEN Null ELSE Some(rq.user[1]._id))
            /\ seats[1].name = (IF rq.user = Null THEN "Anonymous" ELSE rq.user[1].username)
            /\ \A i \in 2 .. Len(seats) : seats[i].bot = Some(<< >>)
            /\ Cardinality({i \in 1 .. Len(seats) : seats[i].bot = Null}) = 1

C2_Witness ==
    /\ RedraftOk
    /\ rq.user = Null
    /\ Len(SrcDraft.seats) >= 3
    /\ SeatIndex = 1
    /\ RedraftedDraft.seats[1].name = "Anonymous"
    /\ SrcDraft.seats[1].bot = Null

\* C3: after a successful redraft every seat of the new draft has an empty
\* drafted pool, sideboard, pick order and trash order, whatever the seats
\* of the source held.
C3_SeatsCleared ==
    RedraftOk =>
        \A i \in 1 .. Len(RedraftedDraft.seats) :
            LET s == RedraftedDraft.seats[i]
            IN  /\ s.drafted = << >>
                /\ s.sideboard = << >>
                /\ s.pickorder = << >>
                /\ s.trashorder = << >>

C3_Witness ==
    /\ RedraftOk
    /\ Len(SrcDraft.seats) >= 2
    /\ \A i \in 1 .. Len(SrcDraft.seats) :
          SrcDraft.seats[i].drafted # << >> \/ SrcDraft.seats[i].trashorder # << >>

\* C4: the new draft has the source's initial_state (same length, same
\* values in the same order), card pool and basics, and refers to the same
\* cube.
C4_PacksPreserved ==
    RedraftOk =>
        /\ Len(RedraftedDraft.initial_state) = Len(SrcDraft.initial_state)
        /\ RedraftedDraft.initial_state = SrcDraft.initial_state
        /\ RedraftedDraft.cards = SrcDraft.cards
        /\ RedraftedDraft.basics = SrcDraft.basics
        /\ RedraftedDraft.cube = SrcDraft.cube

C4_Witness ==
    /\ RedraftOk
    /\ Len(SrcDraft.initial_state) >= 3
    /\ SeatIndex >= 1
    /\ RedraftedDraft.seats # SrcDraft.seats

\* A :seat parameter that writes an integer: an optional sign and digits only.
IsIntegerText(s) ==
    LET body == IF s # << >> /\ Head(s) \in {"-", "+"} THEN Tail(s) ELSE s
    IN  body # << >> /\ DigitPrefixLen(body) = Len(body)

\* C5: a redraft request whose seat index is not an integer, is negative or
\* is not below the source's seat count is answered with the validation
\* failure, and the Draft collection is left as it was.
C5_BadSeatRejected ==
    (/\ rq.op = "redraft"
     /\ rq.id \in 1 .. Len(rq.before)
     /\ \/ ~IsIntegerText(rq.seat)
        \/ SeatIndex < 0
        \/ SeatIndex >= Len(SrcDraft.seats))
        => /\ resp.kind = "redirect"
           /\ resp.flashMsg = MsgBadSeat
           /\ drafts = rq.before

\* C6: a redraft is made only from a complete source draft: a request on a
\* draft whose picks are not finished creates no draft.
C6_OnlyFromComplete ==
    (rq.op = "redraft" /\ rq.id \in 1 .. Len(rq.before) /\ ~IsComplete(SrcDraft))
        => (resp.kind # "json" /\ drafts = rq.before)

\* C7: a redraft request, accepted or rejected, leaves every stored draft as
\* it was; an accepted one adds one draft under a new id, and a rejected one
\* adds none.
C7_SourceUntouched ==
    rq.op = "redraft" =>
        /\ \A i \in 1 .. Len(rq.before) :
              i <= Len(drafts) /\ drafts[i] = rq.before[i]
        /\ resp.kind = "json" =>
              /\ Len(drafts) = Len(rq.before) + 1
              /\ resp.draft = Len(drafts)
              /\ resp.draft # rq.id
        /\ resp.kind # "json" => drafts = rq.before

C7_Witness ==
    /\ RedraftOk
    /\ IsComplete(SrcDraft)
    /\ Len(SrcDraft.seats) >= 2
    /\ drafts[rq.id] = SrcDraft
    /\ RedraftedDraft # SrcDraft

(***************************************************************************)
(* Properties of the featured queue. A slot that is done holds its         *)
(* request, the queue its update function was applied to (before) and the  *)
(* outcome.                                                                *)
(***************************************************************************)
InQueue(queue, cubeId) == findIndex(queue, cubeId) # 0 - 1

NoDuplicates(queue) ==
    \A i, j \in 1 .. Len(queue) : i # j => queue[i].cubeID # queue[j].cubeID

\* C8: an unqueue request for the cube at queue position 0 or 1 fails with
\* the error 'Cannot remove currently featured cube from queue' and leaves
\* the queue as it was, whatever the queue holds.
C8_UnqueueFeaturedFails ==
    \A p \in Admins :
        (/\ adm[p].pc = "done"
         /\ adm[p].op = "unqueue"
         /\ findIndex(adm[p].before, adm[p].cubeId) \in {0, 1})
            => /\ ~adm[p].ok
               /\ adm[p].message = MsgFeatured
               /\ adm[p].flashType = "danger"
               /\ featured.queue = adm[p].before

C8_Witness ==
    \E p \in Admins :
        /\ adm[p].pc = "done"
        /\ adm[p].op = "unqueue"
        /\ findIndex(adm[p].before, adm[p].cubeId) = 1
        /\ Len(adm[p].before) >= 3
        /\ adm[p].message = MsgFeatured

\* C9: a move request whose target position is beyond the queue's length,
\* or whose cube is not at the stated source position, fails with an error
\* and leaves the queue as it was.
C9_BadMoveFails ==
    \A p \in Admins :
        (/\ adm[p].pc = "done"
         /\ adm[p].op = "move"
         /\ \/ adm[p].to > Len(adm[p].before)
            \/ adm[p].from \notin 1 .. Len(adm[p].before)
            \/ adm[p].before[adm[p].from].cubeID # adm[p].cubeId)
            => /\ ~adm[p].ok
               /\ adm[p].flashType = "danger"
               /\ adm[p].message \in {MsgInvalid, MsgNotAtPosition, MsgTargetTooHigh}
               /\ featured.queue = adm[p].before

C9_Witness ==
    \E p \in Admins :
        /\ adm[p].pc = "done"
        /\ adm[p].op = "move"
        /\ Len(adm[p].before) = 3
        /\ adm[p].from = 3
        /\ adm[p].before[3].cubeID = adm[p].cubeId
        /\ adm[p].to = 4
        /\ adm[p].message = MsgTargetTooHigh

\* C10: queueing a cube that is already in the queue fails with 'Cube is
\* already in queue' after one application of the update function, without
\* another attempt, and leaves the queue as it was; and the queue never
\* holds a cube twice.
C10_NoDuplicateInQueue ==
    /\ NoDuplicates(featured.queue)
    /\ \A p \in Admins :
          /\ adm[p].pc = "persist" => NoDuplicates(adm[p].snap.queue)
          /\ adm[p].message = MsgDuplicate => adm[p].pc = "done"
          /\ (/\ adm[p].pc = "done"
              /\ adm[p].op = "queue"
              /\ InQueue(adm[p].before, adm[p].cubeId))
                 => /\ ~adm[p].ok
                    /\ adm[p].message = MsgDuplicate
                    /\ adm[p].applied = 1
                    /\ adm[p].attempts = 0
                    /\ adm[p].notified = Null
                    /\ featured.queue = adm[p].before

C10_Witness ==
    \E p \in Admins :
        /\ adm[p].pc = "done"
        /\ adm[p].op = "queue"
        /\ Len(adm[p].before) >= 2
        /\ InQueue(adm[p].before, adm[p].cubeId)
        /\ adm[p].message = MsgDuplicate

Fillers(cube) ==
    {c \in Range(cube.cards) :
        \E k \in DOMAIN cube.template :
            \/ Satisfies(c, cube.template[k].primaryPredicate)
            \/ Satisfies(c, cube.template[k].fallbackPredicate)}

\* C13: a pack that is sent has as many cards as the template has slots, and
\* when the cube has fewer cards that fit the template than the template has
\* slots the request fails with InsufficientCardsError and sends no card.
C13_NoShortPack ==
    \A i \in DOMAIN packs :
        LET cube == cubeCards[packs[i].cube]
        IN  /\ packs[i].status = 200 => Len(packs[i].pack) = Len(cube.template)
            /\ (packs[i].status # 404 /\ Cardinality(Fillers(cube)) < Len(cube.template))
               => /\ packs[i].status # 200
                  /\ packs[i].message = "InsufficientCardsError"
                  /\ packs[i].pack = << >>
                  /\ packs[i].cards = << >>

\* a cube whose cards fill the first slot and not the second
C13_Witness ==
    \E i \in DOMAIN packs :
        /\ packs[i].message = "InsufficientCardsError"
        /\ Len(cubeCards[packs[i].cube].template) = 2
        /\ Fillers(cubeCards[packs[i].cube]) # {}

\* C14: no card is twice in a pack that is sent.
C14_NoDuplicateInPack ==
    \A i \in DOMAIN packs :
        packs[i].status = 200 =>
            \A k, l \in DOMAIN packs[i].cards :
                k # l => packs[i].cards[k] # packs[i].cards[l]

\* a pack of two cards from a cube that holds one of its cards twice
C14_Witness ==
    \E i \in DOMAIN packs :
        /\ packs[i].status = 200
        /\ Len(packs[i].cards) = 2
        /\ LET l == cubeCards[packs[i].cube].cards
           IN  /\ Len(l) = 3
               /\ l[1] = l[2]
               /\ l[1] \in Range(packs[i].cards)

(***************************************************************************)
(* Submitted drafts and the analytics.                                     *)
(***************************************************************************)
NoSubmitInFlight == \A p \in Clients : sub[p].pc \in {"idle", "done"}

\* C15: saveDraftAnalytics is called at most once for a draft, however many
\* /submitdraft requests are made for it.
C15_FoldAtMostOnce ==
    \A id \in DOMAIN foldLog.calls : foldLog.calls[id] <= 1

\* C16: when the same seats of the same draft have been submitted twice, the
\* pick count of every card name has grown by twice the picks the draft
\* holds of that name.
C16_FoldTwiceDoubles ==
    (/\ NoSubmitInFlight
     /\ Len(foldLog.done) = 2
     /\ foldLog.done[1].id = foldLog.done[2].id
     /\ foldLog.done[1].seats = foldLog.done[2].seats)
    => \A name \in CardNames :
           analytics[1].picks[name] =
               foldLog.base[name]
                   + 2 * Contribution(foldLog.done[1].cards, foldLog.done[1].seats, name)

\* a finished draft with two picks of a name, submitted twice
C16_Witness ==
    /\ NoSubmitInFlight
    /\ Len(foldLog.done) = 2
    /\ foldLog.done[1].id = foldLog.done[2].id
    /\ foldLog.done[1].seats = SeatsPicked
    /\ foldLog.done[2].seats = SeatsPicked
    /\ foldLog.base["Bolt"] = 3
    /\ analytics[1].picks["Bolt"] = 7

\* C17: when two different drafts of a cube have been submitted, in whatever
\* order the steps of the two requests were taken, the pick counts of the
\* cube hold the picks of both.
C17_NoLostFold ==
    (/\ NoSubmitInFlight
     /\ Len(foldLog.done) = 2
     /\ foldLog.done[1].id # foldLog.done[2].id
     /\ foldLog.done[1].cube = foldLog.done[2].cube)
    => \A name \in CardNames :
           analytics[foldLog.done[1].cube].picks[name] =
               foldLog.base[name]
                   + Contribution(foldLog.done[1].cards, foldLog.done[1].seats, name)
                   + Contribution(foldLog.done[2].cards, foldLog.done[2].seats, name)

\* two drafts folded at once: one of the two writes was refused and made again
C17_Witness ==
    /\ NoSubmitInFlight
    /\ Len(foldLog.done) = 2
    /\ foldLog.done[1].id # foldLog.done[2].id
    /\ foldLog.done[1].seats = SeatsPicked
    /\ foldLog.done[2].seats = SeatsTrashed
    /\ \E k \in 1 .. 2 : foldLog.done[k].retries > 0

\* C18: no step changes a stored draft that is complete.
C18_CompleteIsReadOnly ==
    [][\A i \in DOMAIN drafts : IsComplete(drafts[i]) => drafts'[i] = drafts[i]]_vars

(***************************************************************************)
(* The writes of a redraft; the recommendations.                           *)
(***************************************************************************)
\* a draft as a finished redraft of src is: the packs of src, every seat
\* emptied, seat 0 without a bot and every other seat with a fresh one
FormedRedraft(d, src) ==
    /\ d.initial_state = src.initial_state
    /\ d.cards = src.cards
    /\ Len(d.seats) = Len(src.seats)
    /\ \A i \in DOMAIN d.seats :
          /\ d.seats[i].drafted = << >>
          /\ d.seats[i].sideboard = << >>
          /\ d.seats[i].pickorder = << >>
          /\ d.seats[i].trashorder = << >>
          /\ d.seats[i].bot = (IF i = 1 THEN Null ELSE Some(<< >>))

\* C19: a redraft is in the Draft collection finished or not at all: every
\* draft stored after the source, and every such draft a reader has been
\* handed, is rotated, cleared and reassigned.
C19_RedraftWrittenWhole ==
    /\ \A i \in 2 .. Len(drafts) : FormedRedraft(drafts[i], drafts[1])
    /\ (pend.seenId >= 2 /\ pend.seen # Null) => FormedRedraft(pend.seen[1], drafts[1])

\* a reader is handed the redraft of a played draft before the handler has
\* answered
C19_Witness ==
    /\ pend.pc = "read"
    /\ pend.seenId = pend.target
    /\ pend.seen # Null
    /\ Len(drafts[1].seats) >= 3
    /\ \A i \in DOMAIN drafts[1].seats :
          drafts[1].seats[i].pickorder # << >> \/ drafts[1].seats[i].trashorder # << >>
    /\ pend.seen[1].seats[1].name # drafts[1].seats[1].name

\* C20: when the service cannot be reached or answers with a status that is
\* not a success, the handler logs it and answers with no recommendation;
\* the failure does not leave the handler as an exception.
C20_ServiceFailureRecovered ==
    (adds.pc = "done" /\ adds.service.kind \in {"notOk", "unreachable"})
    => /\ adds.logged # Null
       /\ ~adds.threw
       /\ adds.status # 0
       /\ adds.toAdd = << >>
       /\ adds.toCut = << >>

\* C21: a request for recommendations that has been passed on to the service
\* is answered in the end, whether or not the service answers.
C21_AddsAlwaysAnswered == (adds.pc = "waiting") ~> (adds.pc = "done")

(***************************************************************************)
(* Updates of the card list.                                               *)
(***************************************************************************)
UpdateCardAnswered == upd.op = "updatecard"

\* the request is well formed and comes from the owner of a cube that exists
UpdateCardAllowed ==
    /\ UpdateCardAnswered
    /\ ~UpdateCardInvalid(upd.src, upd.updated)
    /\ upd.status \notin {401, 404}

SrcIndex4 == upd.src[1].index[1].num

\* src.index does not address an entry that src is equivalent to
BadAddress ==
    \/ SrcIndex4 >= 4 * Len(upd.before)
    \/ SrcIndex4 < 0
    \/ SrcIndex4 % 4 # 0
    \/ ~cardsAreEquivalent(upd.src[1].card, WithTypeLine(upd.before[(SrcIndex4 \div 4) + 1]))

\* C22: an updatecard request whose src.index does not address an entry
\* equivalent to src is answered with status 400, and the card list is left
\* as it was.
C22_BadIndexRejected ==
    (UpdateCardAllowed /\ BadAddress)
    => /\ upd.status = 400
       /\ ~upd.threw
       /\ cardList[upd.id] = upd.before

UpdatedEntry == cardList[upd.id][(SrcIndex4 \div 4) + 1]

PreviousEntry == upd.before[(SrcIndex4 \div 4) + 1]

\* the other entries are as they were
OthersUnchanged ==
    /\ Len(cardList[upd.id]) = Len(upd.before)
    /\ \A j \in DOMAIN upd.before :
          j # (SrcIndex4 \div 4) + 1 => cardList[upd.id][j] = upd.before[j]

\* field k after the update, given the value the entry had before
MergedFrom(k, previous) ==
    Field(UpdatedEntry, k) =
        (IF k \in DOMAIN upd.updated THEN upd.updated[k] ELSE previous)

\* C23, as claimed: after a successful update every field of the entry holds
\* the value of the request when the request holds one, is absent when the
\* request holds null, and is as it was stored when the request does not
\* name it; the other entries and the length are as they were.
C23_MergeKeepsStored ==
    (UpdateCardAnswered /\ upd.status = 200)
    => /\ \A k \in SchemaKeys : MergedFrom(k, Field(PreviousEntry, k))
       /\ OthersUnchanged

\* C23, as the code has it: a field the request does not name is as it was
\* stored, except that an entry stored without a type_line gets the type of
\* its card from the card database.
C23_MergePrecedence ==
    (UpdateCardAnswered /\ upd.status = 200)
    => /\ \A k \in SchemaKeys : MergedFrom(k, Field(WithTypeLine(PreviousEntry), k))
       /\ OthersUnchanged

\* an update of the second of two entries that sets a field, deletes one and
\* keeps the others
C23_Witness ==
    /\ UpdateCardAnswered
    /\ upd.status = 200
    /\ Len(upd.before) = 2
    /\ SrcIndex4 = 4
    /\ DOMAIN upd.updated = {"status", "cmc"}
    /\ upd.updated["status"] = Some(JSStr("Proxied"))
    /\ upd.updated["cmc"] = Null
    /\ DOMAIN UpdatedEntry = {"cardID", "status", "type_line"}

UpdateCardsDone == upd.op = "updatecards" /\ upd.status = 200

\* C28: a bulk update leaves the number of entries as it was, leaves every
\* entry that is not selected as it was, and changes only the named fields
\* of a selected one.
C28_BulkUpdateFrame ==
    UpdateCardsDone
    => /\ Len(cardList[upd.id]) = Len(upd.before)
       /\ \A j \in DOMAIN upd.before :
             IF j \in SelectedIndices(upd.selected)
             THEN \A k \in SchemaKeys \ SetKeys(upd.updated) :
                     Field(cardList[upd.id][j], k) = Field(upd.before[j], k)
             ELSE cardList[upd.id][j] = upd.before[j]

(***************************************************************************)
(* The featured queue: moves, and the two cubes at its head.               *)
(***************************************************************************)
\* the entries of a queue other than those of one cube, in their order
Others(queue, cubeId) == SelectSeq(queue, LAMBDA e : e.cubeID # cubeId)

\* C27: after a successful move the queue has the length it had and the
\* entries it had, the moved cube is at position `to` of the request (index
\* to - 1 counted from 0), and the other entries are in the order they had.
C27_MoveIsPermutation ==
    \A p \in Admins :
        (adm[p].pc = "done" /\ adm[p].op = "move" /\ adm[p].ok)
            => /\ Len(featured.queue) = Len(adm[p].before)
               /\ Range(featured.queue) = Range(adm[p].before)
               /\ NoDuplicates(featured.queue)
               /\ adm[p].to \in 1 .. Len(featured.queue)
               /\ featured.queue[adm[p].to] = adm[p].before[adm[p].from]
               /\ featured.queue[adm[p].to].cubeID = adm[p].cubeId
               /\ Others(featured.queue, adm[p].cubeId) = Others(adm[p].before, adm[p].cubeId)

\* a cube moved from the fourth place to the third
C27_Witness ==
    \E p \in Admins :
        /\ adm[p].pc = "done"
        /\ adm[p].op = "move"
        /\ adm[p].ok
        /\ adm[p].from = 4
        /\ adm[p].to = 3
        /\ featured.queue # adm[p].before

\* C25: no step of a queue, unqueue or move request changes the entry at
\* position 0 or at position 1 of the queue, once there is one.
C25_HeadIsFixed ==
    [][\A i \in {1, 2} :
          i <= Len(featured.queue)
             => /\ i <= Len(featured'.queue)
                /\ featured'.queue[i] = featured.queue[i]]_vars

\* a cube has been taken from behind the two at the head, and one has been
\* moved behind them
C25_Witness ==
    \E p \in Admins :
        /\ adm[p].pc = "done"
        /\ adm[p].op \in {"unqueue", "move"}
        /\ adm[p].ok
        /\ Len(adm[p].before) >= 3
        /\ featured.queue # adm[p].before
        /\ SubSeq(featured.queue, 1, 2) = SubSeq(adm[p].before, 1, 2)

(***************************************************************************)
(* The queue under concurrent requests.                                    *)
(***************************************************************************)
\* the step that ends an update with ok
ReportsOk(p) == adm[p].pc # "done" /\ adm'[p].pc = "done" /\ adm'[p].ok

\* the step writes what the request's function makes of the queue as it
\* is stored now
WritesOnCurrent(p) ==
    /\ adm[p].pc = "persist"
    /\ ~ApplyFn(adm[p], featured.queue).threw
    /\ featured'.queue = ApplyFn(adm[p], featured.queue).queue

\* C24: an update is reported ok only by the step that writes the result of
\* its function applied to the queue as stored at that moment, so that no
\* update before it is undone; and the stored queue changes in no other
\* step, so that an update whose function throws, or that gives up, writes
\* nothing.
C24_UpdatesAreCompareAndSwap ==
    [][/\ \A p \in Admins : ReportsOk(p) => WritesOnCurrent(p)
       /\ featured' # featured
             => \E p \in Admins : ReportsOk(p) /\ WritesOnCurrent(p)
       /\ \A p \in Admins :
             (adm[p].pc # "done" /\ adm'[p].pc = "done" /\ ~adm'[p].ok)
                => featured' = featured
       /\ \A p \in Admins : adm'[p].attempts <= MaxRetries]_vars

\* both sessions have queued a cube, one of them at its second attempt, and
\* a third request has failed on a duplicate
C24_Witness ==
    /\ Len(featured.queue) = 2
    /\ \E p, q \in Admins :
          /\ p # q
          /\ adm[p].pc = "done" /\ adm[p].ok /\ adm[p].op = "queue"
          /\ adm[p].attempts = 1
          /\ adm[p].applied = 2
          /\ featured.queue[2].cubeID = adm[p].cubeId
          /\ adm[q].pc = "done" /\ ~adm[q].ok /\ adm[q].message = MsgDuplicate

\* C26: no cube in the featured queue is private.
C26_NoPrivateCubeInQueue ==
    \A i \in 1 .. Len(featured.queue) : ~cubes[featured.queue[i].cubeID].isPrivate

(***************************************************************************)
(* The read endpoints.                                                     *)
(***************************************************************************)
\* the requesting user may view the cube asked for, and the cube it is
\* compared with when there is one
MayRead ==
    /\ isCubeViewable(findCube(cubes, rd.id), rd.user)
    /\ (rd.bId # Null /\ rd.endpoint = "cubetagcolors" /\ findCube(cubes, rd.bId[1]) # Null)
          => isCubeViewable(findCube(cubes, rd.bId[1]), rd.user)

\* C29: a read request is answered with status 404 and no data of a cube
\* when the requesting user may not view the cube, and with status 200 and
\* the cube's data when that user may.
C29_ReadDecidedOnUser ==
    rd.endpoint # "none"
    => IF MayRead
       THEN rd.status = 200 /\ rd.id \in rd.data
       ELSE rd.status = 404 /\ rd.data = {}

(***************************************************************************)
(* The review of articles, videos and podcasts.                            *)
(***************************************************************************)
\* C30: an item that was under review is decided at most once, and its
\* owner gets at most one notification and one mail for the review; an item
\* that was not under review keeps its status and its date, and its owner
\* gets nothing.
C30_OneDecisionPerReview ==
    \A k \in ContentKinds :
        /\ rev.log[k].saves <= 1
        /\ rev.log[k].notes <= 1
        /\ rev.log[k].mails <= 1
        /\ rev.log[k].first # "inReview"
              => /\ content[k] = Document(rev.log[k].first)
                 /\ rev.log[k].saves = 0
                 /\ rev.log[k].notes = 0
                 /\ rev.log[k].mails = 0

====
